---- MODULE Spec2Model ----
(***************************************************************************)
(* Model of the address matching and confidence-scoring engine of          *)
(* src/src/address_matcher.py.                                             *)
(*                                                                         *)
(* A Python str is modelled as a sequence of one-character strings.        *)
(* None is modelled by the value NoneValue.                                *)
(***************************************************************************)
EXTENDS Integers, Sequences, FiniteSets, TLC

VARIABLES
    call,                 \* the function the caller invokes
    pc,                   \* position in that call: "call", "loop", "done"
    passes,               \* number of normalize_address passes applied so far
    address,              \* normalize_address: its argument
    reference_address,    \* compare_addresses / find_best_address_match: argument
    candidate_address,    \* compare_addresses: argument
    require_postal_match, \* compare_addresses: argument
    text,                 \* find_best_address_match: argument
    min_confidence,       \* find_best_address_match: argument
    potential_addresses,  \* find_best_address_match: local list
    idx,                  \* find_best_address_match: candidates consumed by the for loop
    score,                \* find_best_address_match: local, from compare_addresses
    match,                \* find_best_address_match: local, from compare_addresses
    best_score,           \* find_best_address_match: local
    best_match,           \* find_best_address_match: local
    result,               \* the value returned by the call
    cleaned,              \* extract_addresses_from_text: local clean_text
    pending,              \* extract_addresses_from_text: starts of the street matches
    task,                 \* concurrent callers: each thread's call, argument, position, result
    locals,               \* concurrent callers: the activation records of the calls
    urls,                 \* batch_check_urls: argument
    max_concurrent,       \* batch_check_urls: argument
    unique_urls,          \* batch_check_urls: the submitted checks no worker has taken
    running,              \* batch_check_urls: the URLs whose checks are in a worker
    outcome,              \* batch_check_urls: what each finished check met
    results,              \* batch_check_urls: local list
    merchants_df,         \* process_merchant_verification: the extracted merchant ids
    verification_results, \* process_merchant_verification: local dictionary
    index,                \* process_merchant_verification: merchants consumed by the loop
    merchant_result,      \* process_merchant_verification: local dictionary
    filtered_results,     \* process_merchant_verification: local list
    site_i,               \* process_merchant_verification: sites consumed by the loop (i)
    best_confidence,      \* process_merchant_verification: local
    best_result,          \* process_merchant_verification: local
    page_text,            \* page scan: the text of the page
    merchant_data,        \* page scan: argument
    df,                   \* _clean_merchant_data: argument
    workbook,             \* extract_merchant_data: the file at file_path
    frame,                \* filter_merchants: argument merchants_df
    filters,              \* filter_merchants: argument
    exact_match,          \* filter_merchants: argument
    num_results,          \* duckduckgo_search: argument
    retry_count,          \* duckduckgo_search: local
    attempts,             \* duckduckgo_search: what each search attempt so far met
    engine_i,             \* search_for_merchant: engines consumed by the loop
    contacted,            \* search_for_merchant: the engines contacted so far
    success,              \* search_for_merchant: local
    search_results,       \* search_for_merchant / find_and_verify_merchant: local
    max_websites,         \* find_and_verify_merchant: argument
    websites_checked,     \* find_and_verify_merchant: local
    site_k,               \* find_and_verify_merchant: results consumed by the loop
    visited,              \* find_and_verify_merchant: the pages navigated to so far
    verification_list     \* find_and_verify_merchant: local list verification_results

vars == <<call, pc, passes, address, reference_address, candidate_address,
          require_postal_match, text, min_confidence, potential_addresses,
          idx, score, match, best_score, best_match, result, cleaned, pending,
          task, locals, urls, max_concurrent, unique_urls, running, outcome, results,
          merchants_df, verification_results, index, merchant_result,
          filtered_results, site_i, best_confidence, best_result,
          page_text, merchant_data, df, workbook, frame, filters, exact_match,
          num_results, retry_count, attempts, engine_i, contacted, success, search_results,
          max_websites, websites_checked, site_k, visited, verification_list>>

\* Python's None.  A str is a sequence of one-character strings, so this value
\* differs from every str.
NoneValue == <<"None">>

\* None where the program otherwise holds a dictionary
NoDict == [none |-> TRUE]

\* the arguments, locals and result of one call into the address matcher
coreVars == <<call, pc, passes, address, reference_address, candidate_address,
              require_postal_match, text, min_confidence, potential_addresses,
              idx, score, match, best_score, best_match, result>>

\* the locals of extract_addresses_from_text that only its own steps use
extractVars == <<cleaned, pending>>
\* before extract_addresses_from_text assigns them
ExtractIdle == cleaned = <<>> /\ pending = <<>>

\* the state of the concurrent callers
threadVars == <<task, locals>>
\* no thread has been started
ThreadsIdle == task = <<>> /\ locals = <<>>

\* the arguments and locals of batch_check_urls
batchVars == <<urls, max_concurrent, unique_urls, running, outcome, results>>
\* before batch_check_urls is called
BatchIdle ==
    /\ urls = <<>> /\ max_concurrent = 0 /\ unique_urls = <<>>
    /\ running = {} /\ outcome = <<>> /\ results = <<>>

\* the arguments and locals of the address matcher's functions
coreLocals == <<passes, address, reference_address, candidate_address,
                require_postal_match, text, min_confidence, potential_addresses,
                idx, score, match, best_score, best_match>>

\* the arguments and locals of process_merchant_verification
processVars == <<merchants_df, verification_results, index, merchant_result,
                 filtered_results, site_i, best_confidence, best_result>>
\* before process_merchant_verification is called
ProcessIdle ==
    /\ merchants_df = <<>> /\ verification_results = NoDict /\ index = 0
    /\ merchant_result = NoDict /\ filtered_results = <<>> /\ site_i = 0
    /\ best_confidence = 0 /\ best_result = NoDict

\* the arguments of the page scorers
scanVars == <<page_text, merchant_data>>
ScanIdle == page_text = <<>> /\ merchant_data = <<>>

\* the argument of _clean_merchant_data
cleanVars == <<df>>
CleanIdle == df = <<>>

\* the arguments of the data extractor's functions
dataVars == <<workbook, frame, filters, exact_match>>
DataIdle == workbook = NoDict /\ frame = <<>> /\ filters = <<>> /\ exact_match = FALSE

\* the locals of duckduckgo_search
retryVars == <<num_results, retry_count, attempts>>
RetryIdle == num_results = 0 /\ retry_count = 0 /\ attempts = <<>>

\* the arguments and locals of search_for_merchant and find_and_verify_merchant
verifierVars == <<engine_i, contacted, success, search_results, max_websites,
                  websites_checked, site_k, visited, verification_list>>
VerifierIdle ==
    /\ engine_i = 0 /\ contacted = <<>> /\ success = FALSE /\ search_results = <<>>
    /\ max_websites = 0 /\ websites_checked = 0 /\ site_k = 0 /\ visited = <<>>
    /\ verification_list = <<>>

\* every part of the program but x has not been entered
IdleExcept(x) ==
    /\ IF x = "data" THEN TRUE ELSE DataIdle
    /\ IF x = "retry" THEN TRUE ELSE RetryIdle
    /\ IF x = "verifier" THEN TRUE ELSE VerifierIdle
    /\ IF x = "threads" THEN TRUE ELSE ThreadsIdle
    /\ IF x = "batch" THEN TRUE ELSE BatchIdle
    /\ IF x = "process" THEN TRUE ELSE ProcessIdle
    /\ IF x = "scan" THEN TRUE ELSE ScanIdle
    /\ IF x = "clean" THEN TRUE ELSE CleanIdle

\* the state outside the single call into the address matcher
outsideCore == <<threadVars, batchVars, processVars, scanVars, cleanVars, dataVars,
                 retryVars, verifierVars>>
CoreAlone == IdleExcept("core")

\* the state outside each of the other parts
outsideThreads == <<coreVars, extractVars, batchVars, processVars, scanVars, cleanVars,
                     dataVars, retryVars, verifierVars>>
outsideBatch == <<coreLocals, extractVars, threadVars, processVars, scanVars, cleanVars,
                   dataVars, retryVars, verifierVars>>
outsideProcess == <<coreLocals, extractVars, threadVars, batchVars, scanVars, cleanVars,
                     dataVars, retryVars, verifierVars>>
outsideScan == <<coreLocals, extractVars, threadVars, batchVars, processVars, cleanVars,
                  dataVars, retryVars, verifierVars>>
outsideClean == <<coreLocals, extractVars, threadVars, batchVars, processVars, scanVars,
                   dataVars, retryVars, verifierVars>>

outsideData == <<coreLocals, extractVars, threadVars, batchVars, processVars, scanVars,
                 cleanVars, retryVars, verifierVars>>
outsideRetry == <<coreLocals, extractVars, threadVars, batchVars, processVars, scanVars,
                  cleanVars, dataVars, verifierVars>>
outsideVerifier == <<coreLocals, extractVars, threadVars, batchVars, processVars, scanVars,
                     cleanVars, dataVars, retryVars>>

\* what the calls into the address matcher's scoring never touch
outsideMatcher == <<extractVars, outsideCore>>


(***************************************************************************)
(* Characters and Python's str / re primitives                             *)
(***************************************************************************)
LowerTable == <<"a","b","c","d","e","f","g","h","i","j","k","l","m",
                "n","o","p","q","r","s","t","u","v","w","x","y","z">>
UpperTable == <<"A","B","C","D","E","F","G","H","I","J","K","L","M",
                "N","O","P","Q","R","S","T","U","V","W","X","Y","Z">>
DigitTable == <<"0","1","2","3","4","5","6","7","8","9">>

\* The characters of the model in code-point order (ASCII).
AsciiTable == <<"\t", "\n", " ", "!", ",", "-", ".">> \o DigitTable \o <<"<", ">">>
              \o UpperTable \o <<"_">> \o LowerTable

Range(f) == {f[i] : i \in DOMAIN f}

Max(S) == CHOOSE x \in S : \A y \in S : y <= x
Min(S) == CHOOSE x \in S : \A y \in S : x <= y
\* the least element of a set of positions, -1 for the empty set
MinOrNone(S) == IF S = {} THEN -1 ELSE Min(S)

LowerLetters == Range(LowerTable)
UpperLetters == Range(UpperTable)
Digits == Range(DigitTable)
Letters == LowerLetters \cup UpperLetters

\* ord(c)
Ord == [c \in Range(AsciiTable) |-> CHOOSE i \in DOMAIN AsciiTable : AsciiTable[i] = c]

\* str.lower() on one character
LowerChar == [c \in Range(AsciiTable) |->
                IF c \in UpperLetters
                THEN LowerTable[CHOOSE i \in DOMAIN UpperTable : UpperTable[i] = c]
                ELSE c]

\* regex classes \w and \s
IsWord(c) == c \in Letters \cup Digits \cup {"_"}
IsSpace(c) == c \in {" ", "\t", "\n"}

\* s.lower()
Lower(s) == [i \in DOMAIN s |-> LowerChar[s[i]]]

\* s[i:j] of Python for 0 <= i, with 0-based half-open bounds
Slice(s, i, j) == SubSeq(s, i + 1, IF j > Len(s) THEN Len(s) ELSE j)

\* does `sub` occur in s at 1-based position i
StartsAt(s, sub, i) ==
    /\ i + Len(sub) - 1 <= Len(s)
    /\ \A k \in 1..Len(sub) : s[i + k - 1] = sub[k]

\* `sub in s`
Contains(s, sub) == \E i \in 1..(Len(s) - Len(sub) + 1) : StartsAt(s, sub, i)

\* the first 1-based position >= i at which `sub` occurs in s, or -1
NextOccurrence(s, sub, i) == MinOrNone({j \in i..Len(s) : StartsAt(s, sub, j)})

RECURSIVE ReplaceFrom(_, _, _, _)
RECURSIVE ReplaceAt(_, _, _, _, _)
\* the rest of the string from i, given the next occurrence j of `old`
ReplaceAt(s, old, new, i, j) ==
    IF j = -1 THEN SubSeq(s, i, Len(s))
    ELSE SubSeq(s, i, j - 1) \o new \o ReplaceFrom(s, old, new, j + Len(old))

ReplaceFrom(s, old, new, i) == ReplaceAt(s, old, new, i, NextOccurrence(s, old, i))

\* s.replace(old, new): leftmost non-overlapping occurrences (old is never empty here)
Replace(s, old, new) == ReplaceFrom(s, old, new, 1)

\* re.sub(r"[^\w\s]", " ", s)
SubNonWord(s) == [i \in DOMAIN s |-> IF IsWord(s[i]) \/ IsSpace(s[i]) THEN s[i] ELSE " "]

\* re.sub(r"\s+", " ", s): the first character of every whitespace run becomes
\* one space, the rest of the run is dropped
CollapseSpace(s) ==
    LET marked == [i \in DOMAIN s |->
                     IF IsSpace(s[i])
                     THEN (IF i > 1 /\ IsSpace(s[i - 1]) THEN "" ELSE " ")
                     ELSE s[i]]
    IN SelectSeq(marked, LAMBDA c : c # "")

\* s.strip()
Strip(s) ==
    IF \A i \in DOMAIN s : IsSpace(s[i]) THEN <<>>
    ELSE SubSeq(s, Min({i \in DOMAIN s : ~IsSpace(s[i])}),
                   Max({i \in DOMAIN s : ~IsSpace(s[i])}))

(***************************************************************************)
(* normalize_address                                                       *)
(***************************************************************************)
\* the table without its space-terminated keys
replacements_DottedOnly == <<
    << <<"s","t",".">>,          <<"s","t","r","e","e","t">> >>,
    << <<"r","d",".">>,          <<"r","o","a","d">> >>,
    << <<"a","v","e",".">>,      <<"a","v","e","n","u","e">> >>,
    << <<"d","r",".">>,          <<"d","r","i","v","e">> >>,
    << <<"l","n",".">>,          <<"l","a","n","e">> >>,
    << <<"b","l","v","d",".">>,  <<"b","o","u","l","e","v","a","r","d">> >> >>

\* the dict `replacements`, in insertion order
replacements == <<
    << <<"s","t",".">>,          <<"s","t","r","e","e","t">> >>,
    << <<"s","t"," ">>,          <<"s","t","r","e","e","t"," ">> >>,
    << <<"r","d",".">>,          <<"r","o","a","d">> >>,
    << <<"r","d"," ">>,          <<"r","o","a","d"," ">> >>,
    << <<"a","v","e",".">>,      <<"a","v","e","n","u","e">> >>,
    << <<"a","v","e"," ">>,      <<"a","v","e","n","u","e"," ">> >>,
    << <<"d","r",".">>,          <<"d","r","i","v","e">> >>,
    << <<"d","r"," ">>,          <<"d","r","i","v","e"," ">> >>,
    << <<"l","n",".">>,          <<"l","a","n","e">> >>,
    << <<"l","n"," ">>,          <<"l","a","n","e"," ">> >>,
    << <<"b","l","v","d",".">>,  <<"b","o","u","l","e","v","a","r","d">> >>,
    << <<"b","l","v","d"," ">>,  <<"b","o","u","l","e","v","a","r","d"," ">> >> >>

RECURSIVE ApplyReplacements(_, _)
\* for old, new in replacements.items(): address = address.replace(old, new)
ApplyReplacements(s, k) ==
    IF k > Len(replacements) THEN s
    ELSE ApplyReplacements(Replace(s, replacements[k][1], replacements[k][2]), k + 1)

normalize_address(a) ==
    IF a = <<>> THEN <<>>
    ELSE Strip(CollapseSpace(SubNonWord(ApplyReplacements(Lower(a), 1))))

(***************************************************************************)
(* fuzzywuzzy.fuzz (pure-Python path over difflib.SequenceMatcher), as     *)
(* called by address_matcher.py, with SequenceMatcher's autojunk heuristic *)
(* for a second operand of 200 characters or more.                         *)
(***************************************************************************)
AutoJunkLen == 200

\* SequenceMatcher.__chain_b: b2j[c] is the set of (0-based) positions of c in b;
\* when len(b) >= 200 the characters that occur more than len(b) // 100 + 1
\* times are "popular" and get no entry
B2J(b) ==
    [c \in {x \in Range(b) :
              \/ Len(b) < AutoJunkLen
              \/ Cardinality({j \in DOMAIN b : b[j] = x}) <= Len(b) \div 100 + 1} |->
        {j \in 0..(Len(b) - 1) : b[j + 1] = c}]

\* a[i] == b[j] (0-based) and b[j] has an entry in b2j
Indexed(a, b, b2j, i, j) == a[i + 1] = b[j + 1] /\ b[j + 1] \in DOMAIN b2j

\* how far a stretch of the predicate `same` over 0..(lim - 1) runs from 0
RunOf(same, lim) == Min({k \in 0..lim : k = lim \/ ~same[k]})

\* length of the longest run a[i:i+k] == b[j:j+k] of indexed characters with
\* i+k <= ahi, j+k <= bhi (0-based positions, as in difflib)
MatchLen(a, b, b2j, i, j, ahi, bhi) ==
    RunOf([k \in 0..(Min({ahi - i, bhi - j}) - 1) |-> Indexed(a, b, b2j, i + k, j + k)],
          Min({ahi - i, bhi - j}))

\* the longest of the common runs `hits`; of those the one starting earliest
\* in a, then earliest in b
Longest(hits, k) ==
    CHOOSE h \in hits :
        /\ h[3] = k
        /\ \A o \in hits : o[3] = k => (h[1] < o[1] \/ (h[1] = o[1] /\ h[2] <= o[2]))

LongestOrNone(hits, alo, blo) ==
    IF hits = {} THEN <<alo, blo, 0>> ELSE Longest(hits, Max({h[3] : h \in hits}))

\* the match grown by `back` characters before it and `fwd` after it
Grown(m, back, fwd) == <<m[1] - back, m[2] - back, m[3] + back + fwd>>

\* find_longest_match's two loops that extend the best run by the equal
\* characters on each side of it, popular ones included
Extend(a, b, alo, ahi, blo, bhi, m) ==
    Grown(m,
          RunOf([k \in 0..(Min({m[1] - alo, m[2] - blo}) - 1) |->
                    a[m[1] - k] = b[m[2] - k]],
                Min({m[1] - alo, m[2] - blo})),
          RunOf([k \in 0..(Min({ahi - m[1] - m[3], bhi - m[2] - m[3]}) - 1) |->
                    a[m[1] + m[3] + k + 1] = b[m[2] + m[3] + k + 1]],
                Min({ahi - m[1] - m[3], bhi - m[2] - m[3]})))

\* SequenceMatcher.find_longest_match(alo, ahi, blo, bhi): <<i, j, k>>.
\* Only the pairs <<i, j>> where a run of indexed characters begins are measured.
FindLongestMatch(a, b, b2j, alo, ahi, blo, bhi) ==
    Extend(a, b, alo, ahi, blo, bhi,
        LongestOrNone(
            UNION {{<<i, j, MatchLen(a, b, b2j, i, j, ahi, bhi)>> :
                      j \in {x \in (IF a[i + 1] \in DOMAIN b2j THEN b2j[a[i + 1]] ELSE {}) :
                               /\ blo <= x /\ x < bhi
                               /\ i = alo \/ x = blo \/ ~Indexed(a, b, b2j, i - 1, x - 1)}} :
                   i \in alo..(ahi - 1)},
            alo, blo))

RECURSIVE MatchingBlocksIn(_, _, _, _, _, _, _)
RECURSIVE BlocksAround(_, _, _, _, _, _, _, _)
\* the block m and the blocks found to its left and to its right
BlocksAround(a, b, b2j, alo, ahi, blo, bhi, m) ==
    IF m[3] = 0 THEN {}
    ELSE {m} \cup MatchingBlocksIn(a, b, b2j, alo, m[1], blo, m[2])
             \cup MatchingBlocksIn(a, b, b2j, m[1] + m[3], ahi, m[2] + m[3], bhi)

MatchingBlocksIn(a, b, b2j, alo, ahi, blo, bhi) ==
    IF alo >= ahi \/ blo >= bhi THEN {}
    ELSE BlocksAround(a, b, b2j, alo, ahi, blo, bhi,
                      FindLongestMatch(a, b, b2j, alo, ahi, blo, bhi))

\* the non-empty blocks collected by SequenceMatcher.get_matching_blocks
MatchingBlocks(a, b) == MatchingBlocksIn(a, b, B2J(b), 0, Len(a), 0, Len(b))

RECURSIVE SumBlocks(_)
SumBlocks(B) ==
    IF B = {} THEN 0
    ELSE LET m == CHOOSE x \in B : TRUE IN m[3] + SumBlocks(B \ {m})

\* number of matched characters of SequenceMatcher(None, a, b)
Matches(a, b) == SumBlocks(MatchingBlocks(a, b))

\* utils.intr(100 * 2.0 * m / t): int(round(.)), Python 3 rounds halves to even
IntRound100(m, t) ==
    LET n == 200 * m
        q == n \div t
        r == n % t
    IN IF 2 * r > t THEN q + 1
       ELSE IF 2 * r = t THEN q + (q % 2)
       ELSE q

\* fuzz.ratio, with its decorators check_for_equivalence and check_empty_string
ratio(s1, s2) ==
    IF s1 = s2 THEN 100
    ELSE IF Len(s1) = 0 \/ Len(s2) = 0 THEN 0
    ELSE IntRound100(Matches(s1, s2), Len(s1) + Len(s2))

\* s[start : start + n]
Substr(s, start, n) == Slice(s, start, start + n)

\* <<m, t>> with SequenceMatcher(None, shorter, long_substr).ratio() = 2.0 * m / t
RatioOf(shorter, long_substr) ==
    <<Matches(shorter, long_substr), Len(shorter) + Len(long_substr)>>

\* one iteration of partial_ratio's loop over the matching blocks
PartialScore(shorter, longer, block) ==
    RatioOf(shorter, Substr(longer,
                            IF block[2] - block[1] > 0 THEN block[2] - block[1] ELSE 0,
                            Len(shorter)))

PartialScores(shorter, longer) ==
    {PartialScore(shorter, longer, block) :
        block \in MatchingBlocks(shorter, longer) \cup {<<Len(shorter), Len(longer), 0>>}}

\* the greatest ratio of `scores`
MaxScore(scores) == CHOOSE sc \in scores : \A o \in scores : o[1] * sc[2] <= sc[1] * o[2]

RoundScore(sc) == IntRound100(sc[1], sc[2])

\* return 100 if some r > .995, else utils.intr(100 * max(scores))
BestPartial(scores) ==
    IF \E sc \in scores : 2000 * sc[1] > 995 * sc[2] THEN 100
    ELSE RoundScore(MaxScore(scores))

\* fuzz.partial_ratio, with its decorators
partial_ratio(s1, s2) ==
    IF s1 = s2 THEN 100
    ELSE IF Len(s1) = 0 \/ Len(s2) = 0 THEN 0
    ELSE IF Len(s1) <= Len(s2) THEN BestPartial(PartialScores(s1, s2))
    ELSE BestPartial(PartialScores(s2, s1))

\* utils.full_process(s, force_ascii=True) on the characters of the model
full_process(s) == Strip(Lower([i \in DOMAIN s |-> IF IsWord(s[i]) THEN s[i] ELSE " "]))

\* the first 1-based position >= i whose character is (is not) whitespace,
\* or Len(s) + 1
NextSpace(s, i, space) ==
    Min({j \in i..(Len(s) + 1) : j = Len(s) + 1 \/ IsSpace(s[j]) = space})

RECURSIVE SplitFrom(_, _)
RECURSIVE SplitToken(_, _, _)
\* the token s[b .. e - 1], then the rest
SplitToken(s, b, e) == <<SubSeq(s, b, e - 1)>> \o SplitFrom(s, e)

RECURSIVE SplitAt(_, _)
\* b is the start of the next token, or Len(s) + 1
SplitAt(s, b) == IF b > Len(s) THEN <<>> ELSE SplitToken(s, b, NextSpace(s, b, TRUE))

\* s.split(): the maximal runs of non-whitespace characters
SplitFrom(s, i) == SplitAt(s, NextSpace(s, i, FALSE))

Split(s) == SplitFrom(s, 1)

\* s < t for Python strings (lexicographic by code point); k is the first
\* position where they differ, -1 if one is a prefix of the other
LessAt(s, t, k) == IF k = -1 THEN Len(s) < Len(t) ELSE Ord[s[k]] < Ord[t[k]]

StrLess(s, t) ==
    LessAt(s, t, MinOrNone({k \in 1..(IF Len(s) < Len(t) THEN Len(s) ELSE Len(t)) :
                              s[k] # t[k]}))

RECURSIVE Insert(_, _)
Insert(tok, sorted) ==
    IF sorted = <<>> THEN <<tok>>
    ELSE IF StrLess(tok, sorted[1]) THEN <<tok>> \o sorted
    ELSE <<sorted[1]>> \o Insert(tok, Tail(sorted))

RECURSIVE Sorted(_)
\* sorted(tokens)
Sorted(toks) == IF toks = <<>> THEN <<>> ELSE Insert(toks[1], Sorted(Tail(toks)))

RECURSIVE Join(_)
\* " ".join(parts)
Join(parts) ==
    IF parts = <<>> THEN <<>>
    ELSE IF Len(parts) = 1 THEN parts[1]
    ELSE parts[1] \o <<" ">> \o Join(Tail(parts))

\* fuzz._process_and_sort
process_and_sort(s) == Strip(Join(Sorted(Split(full_process(s)))))

\* fuzz.token_sort_ratio
token_sort_ratio(s1, s2) == ratio(process_and_sort(s1), process_and_sort(s2))

(***************************************************************************)
(* compare_addresses                                                       *)
(***************************************************************************)
\* reference_address.get(key, "")
Get(ref, key) == IF key \in DOMAIN ref THEN ref[key] ELSE <<>>

\* normalize_address(" ".join([p for p in ref_parts if p]))
reference_string(ref) ==
    LET ref_parts == <<Get(ref, "address_line1"), Get(ref, "town"),
                       Get(ref, "postcode"), Get(ref, "country")>>
    IN normalize_address(Join(SelectSeq(ref_parts, LAMBDA p : p # <<>>)))

overall_score(ref, normalized_candidate) ==
    token_sort_ratio(reference_string(ref), normalized_candidate)

\* the test for the empty field left out: "" is a substring of every string
NonEmptyIn_NoGuard(needle, haystack) == Contains(haystack, needle)

\* `needle in haystack` for a non-empty needle
NonEmptyIn(needle, haystack) == needle # <<>> /\ Contains(haystack, needle)

\* postcode and postcode.lower() in normalized_candidate.lower()
has_postal_match(ref, normalized_candidate) ==
    NonEmptyIn(Lower(Strip(Get(ref, "postcode"))), Lower(normalized_candidate))

\* town and town in normalized_candidate.lower()
has_town_match(ref, normalized_candidate) ==
    NonEmptyIn(Lower(Strip(Get(ref, "town"))), Lower(normalized_candidate))

StreetScoreAbove70(street, lowered) ==
    street # <<>> /\ partial_ratio(street, lowered) > 70

\* street and fuzz.partial_ratio(street, normalized_candidate.lower()) > 70
has_street_match(ref, normalized_candidate) ==
    StreetScoreAbove70(Lower(Strip(Get(ref, "address_line1"))), Lower(normalized_candidate))

\* confidence = overall_score, then += 20 / 15 / 10 for the component matches
AddBonuses(overall, postal, town, street) ==
    overall + (IF postal THEN 20 ELSE 0) + (IF town THEN 15 ELSE 0)
            + (IF street THEN 10 ELSE 0)

\* the clamp to 100 left out
CapAt100_NoClamp(confidence) == confidence

\* confidence = min(confidence, 100)
CapAt100(confidence) == IF confidence < 100 THEN confidence ELSE 100

\* the cap at 60 left out
PostalCap_Never(confidence, require, postal) == confidence

\* if require_postal_match and not has_postal_match: confidence = min(confidence, 60)
PostalCap(confidence, require, postal) ==
    IF require /\ ~postal
    THEN (IF confidence < 60 THEN confidence ELSE 60)
    ELSE confidence

\* the cap at 60 taken before the bonuses are added
Confidence_CapFirst(overall, postal, town, street, require) ==
    CapAt100(AddBonuses(PostalCap(overall, require, postal), postal, town, street))

\* the confidence from the overall score and the three component matches
Confidence(overall, postal, town, street, require) ==
    PostalCap(CapAt100(AddBonuses(overall, postal, town, street)), require, postal)

\* the body of compare_addresses once the candidate is normalized
CompareNormalized(ref, candidate, normalized_candidate, require) ==
    [confidence |-> Confidence(overall_score(ref, normalized_candidate),
                               has_postal_match(ref, normalized_candidate),
                               has_town_match(ref, normalized_candidate),
                               has_street_match(ref, normalized_candidate),
                               require),
     matched_text |-> candidate]

\* the empty candidate scored like any other
compare_addresses_NoGuard(ref, candidate, require) ==
    CompareNormalized(ref, candidate, normalize_address(candidate), require)

\* the empty candidate handed back as the matched text
compare_addresses_EmptyText(ref, candidate, require) ==
    IF candidate = <<>> THEN [confidence |-> 0, matched_text |-> candidate]
    ELSE CompareNormalized(ref, candidate, normalize_address(candidate), require)

compare_addresses(ref, candidate, require) ==
    IF candidate = <<>> THEN [confidence |-> 0, matched_text |-> NoneValue]
    ELSE CompareNormalized(ref, candidate, normalize_address(candidate), require)

(***************************************************************************)
(* extract_addresses_from_text                                             *)
(* Positions are 0-based as in Python; a failed match is -1.               *)
(***************************************************************************)
PostalWindow == 100
StreetWindowBefore == 50
StreetWindowAfter == 100
DuplicateRatio == 80

\* s[p] is in the character class `cls`
At(s, p, cls) == p >= 0 /\ p < Len(s) /\ s[p + 1] \in cls

AlphaNum == Letters \cup Digits
Spaces == {" ", "\t", "\n"}

\* length of the maximal run of characters of cls starting at p
RunLen(s, p, cls) ==
    IF p < 0 \/ p > Len(s) THEN 0
    ELSE Min({q \in p..Len(s) : ~At(s, q, cls)}) - p

\* the 1-based position of the ">" closing a tag that opens at i, or -1:
\* "<", then one or more characters other than ">", then ">"
CloserOf(i, j) == IF j >= i + 2 THEN j ELSE -1

TagEnd(s, i) ==
    IF s[i] = "<" THEN CloserOf(i, MinOrNone({j \in (i + 1)..Len(s) : s[j] = ">"}))
    ELSE -1

RECURSIVE StripTagsFrom(_, _)
RECURSIVE StripTagAt(_, _, _)
\* the text from i up to the tag opening at j, a space, and the rest
StripTagAt(s, i, j) ==
    IF j = -1 THEN SubSeq(s, i, Len(s))
    ELSE SubSeq(s, i, j - 1) \o <<" ">> \o StripTagsFrom(s, TagEnd(s, j) + 1)

StripTagsFrom(s, i) == StripTagAt(s, i, MinOrNone({j \in i..Len(s) : TagEnd(s, j) # -1}))

\* re.sub(r"<[^>]+>", " ", text), then whitespace collapsed and stripped
clean_text(t) == Strip(CollapseSpace(StripTagsFrom(t, 1)))

\* uk_postcode at p: [A-Z]{1,2}[0-9][A-Z0-9]? ?[0-9][A-Z]{2}, re.IGNORECASE.
\* The choices <<letters, optional character, optional space>> in the order the
\* backtracking engine tries them (every quantifier is greedy).
UKChoices == << <<2, 1, 1>>, <<2, 1, 0>>, <<2, 0, 1>>, <<2, 0, 0>>,
                <<1, 1, 1>>, <<1, 1, 0>>, <<1, 0, 1>>, <<1, 0, 0>> >>

\* the end of the match that takes the choice c at p
UKEnd(p, c) == p + c[1] + 1 + c[2] + c[3] + 3

UKMatchesWith(s, p, c) ==
    /\ \A k \in 0..(c[1] - 1) : At(s, p + k, Letters)
    /\ At(s, p + c[1], Digits)
    /\ c[2] = 1 => At(s, p + c[1] + 1, AlphaNum)
    /\ c[3] = 1 => At(s, p + c[1] + 1 + c[2], {" "})
    /\ \A k \in 1..3 : At(s, UKEnd(p, c) - k, IF k = 3 THEN Digits ELSE Letters)

UKFirst(p, ok) == IF ok = {} THEN -1 ELSE UKEnd(p, UKChoices[Min(ok)])

UKMatchEnd(s, p) == UKFirst(p, {n \in DOMAIN UKChoices : UKMatchesWith(s, p, UKChoices[n])})

\* us_zipcode at p: [0-9]{5}(?:-[0-9]{4})?
USMatchEnd(s, p) ==
    IF \A k \in 0..4 : At(s, p + k, Digits)
    THEN IF At(s, p + 5, {"-"}) /\ \A k \in 6..9 : At(s, p + k, Digits)
         THEN p + 10
         ELSE p + 5
    ELSE -1

\* the alternation: the first alternative that matches wins
FirstAlternative(uk, s, p) == IF uk # -1 THEN uk ELSE USMatchEnd(s, p)

\* postal_pattern: (uk_postcode|us_zipcode)
PostalMatchEnd(s, p) == FirstAlternative(UKMatchEnd(s, p), s, p)

StreetWords == << <<"r","o","a","d">>, <<"s","t","r","e","e","t">>,
                  <<"a","v","e","n","u","e">>, <<"l","a","n","e">>,
                  <<"d","r","i","v","e">>, <<"p","l","a","z","a">>,
                  <<"s","q","u","a","r","e">>, <<"c","o","u","r","t">> >>

KeywordEnd(p, ok) == IF ok = {} THEN -1 ELSE p + Len(StreetWords[Min(ok)])

\* (?:Road|Street|...) at p, re.IGNORECASE: the end of the keyword, or -1
StreetWordEnd(s, p) ==
    KeywordEnd(p, {n \in DOMAIN StreetWords :
                     /\ p >= 0
                     /\ p + Len(StreetWords[n]) <= Len(s)
                     /\ \A k \in 1..Len(StreetWords[n]) :
                           LowerChar[s[p + k]] = StreetWords[n][k]})

\* \b at position p
WordBoundary(s, p) == At(s, p - 1, Letters \cup Digits \cup {"_"})
                      # At(s, p, Letters \cup Digits \cup {"_"})

\* e is the end of a keyword and a word boundary
EndsWord(s, e) == e # -1 /\ WordBoundary(s, e)

\* the splits <<digits, spaces, run>> of address_patterns[0] at p after which
\* the keyword and \b match
Pattern1Tries(s, p) ==
    UNION {UNION {{<<d, w, l>> :
                     l \in {x \in 1..RunLen(s, p + d + w, Letters \cup Spaces) :
                              EndsWord(s, StreetWordEnd(s, p + d + w + x))}} :
                  w \in 1..RunLen(s, p + d, Spaces)} :
           d \in 1..RunLen(s, p, Digits)}

\* greedy with backtracking: most digits, then most spaces, then longest run
Greedy(tries) ==
    CHOOSE t \in tries :
        \A u \in tries : \/ u[1] < t[1]
                         \/ u[1] = t[1] /\ u[2] < t[2]
                         \/ u[1] = t[1] /\ u[2] = t[2] /\ u[3] <= t[3]

Pattern1End(s, p, t) == StreetWordEnd(s, p + t[1] + t[2] + t[3])

Pattern1Pick(s, p, tries) == IF tries = {} THEN -1 ELSE Pattern1End(s, p, Greedy(tries))

\* address_patterns[0] at p: \d+\s+[A-Za-z\s]+(?:Road|...)\b
StreetPattern1End(s, p) == Pattern1Pick(s, p, Pattern1Tries(s, p))

\* \s+\d+ from the end e of the keyword
Pattern2Tail(e, w, d) == IF w >= 1 /\ d >= 1 THEN e + w + d ELSE -1

Pattern2Number(s, e, w) == Pattern2Tail(e, w, RunLen(s, e + w, Digits))

Pattern2From(s, p, e) ==
    IF e # -1 /\ WordBoundary(s, p) /\ WordBoundary(s, e)
    THEN Pattern2Number(s, e, RunLen(s, e, Spaces))
    ELSE -1

\* address_patterns[1] at p: \b(?:Road|...)\b\s+\d+
StreetPattern2End(s, p) == Pattern2From(s, p, StreetWordEnd(s, p))

MatchEnd(kind, s, p) ==
    CASE kind = "postal"  -> PostalMatchEnd(s, p)
      [] kind = "street1" -> StreetPattern1End(s, p)
      [] kind = "street2" -> StreetPattern2End(s, p)

RECURSIVE FindIter(_, _, _)
RECURSIVE FindIterAt(_, _, _)
\* the match starting at q, then the matches after its end
FindIterAt(kind, s, q) ==
    IF q = -1 THEN <<>> ELSE <<q>> \o FindIter(kind, s, MatchEnd(kind, s, q))

\* [m.start() for m in re.finditer(pattern, s)]: leftmost, non-overlapping
FindIter(kind, s, p) ==
    FindIterAt(kind, s, MinOrNone({q \in p..(Len(s) - 1) : MatchEnd(kind, s, q) # -1}))

\* clean_text[max(0, pos - before) : min(len(clean_text), pos + after)]
Window(s, pos, before, after) ==
    Slice(s, IF pos - before > 0 THEN pos - before ELSE 0,
             IF pos + after < Len(s) THEN pos + after ELSE Len(s))

\* the street context cut like a postal one
StreetWindow_AsPostal(s, pos) == Window(s, pos, PostalWindow, PostalWindow)

\* clean_text[max(0, pos - 50) : min(len(clean_text), pos + 100)]
StreetWindow(s, pos) == Window(s, pos, StreetWindowBefore, StreetWindowAfter)

\* every street context appended
AppendUnlessDuplicate_Always(acc, context) == Append(acc, context)

\* if not any(fuzz.ratio(context, addr) > 80 for addr in potential_addresses):
\*     potential_addresses.append(context)
AppendUnlessDuplicate(acc, context) ==
    IF \E n \in DOMAIN acc : ratio(context, acc[n]) > DuplicateRatio
    THEN acc
    ELSE Append(acc, context)

RECURSIVE AddStreetWindows(_, _, _, _)
\* the loop over one street pattern's matches
AddStreetWindows(s, starts, k, acc) ==
    IF k > Len(starts) THEN acc
    ELSE AddStreetWindows(s, starts, k + 1,
             AppendUnlessDuplicate(acc, StreetWindow(s, starts[k])))

\* the loop over the postal matches: every context is appended
PostalWindows(s, starts) ==
    [k \in DOMAIN starts |-> Window(s, starts[k], PostalWindow, PostalWindow)]

\* the second street pattern scanned before the first
StreetStarts_Reversed(s) == FindIter("street2", s, 0) \o FindIter("street1", s, 0)

\* the starts that `for pattern in address_patterns: for match in matches`
\* visits, in the order it visits them
StreetStarts(s) == FindIter("street1", s, 0) \o FindIter("street2", s, 0)

\* the three loops over the cleaned text
ExtractFromClean(s) ==
    AddStreetWindows(s, FindIter("street2", s, 0), 1,
        AddStreetWindows(s, FindIter("street1", s, 0), 1,
            PostalWindows(s, FindIter("postal", s, 0))))

extract_addresses_from_text(t) == ExtractFromClean(clean_text(t))

(***************************************************************************)
(* extract_address_components                                              *)
(***************************************************************************)
WordChars == Letters \cup Digits \cup {"_"}

\* postal_patterns[0] at p, \b on both sides: the end of the first choice the
\* backtracking engine accepts, or -1
UKWordEnd(s, p) ==
    IF WordBoundary(s, p)
    THEN UKFirst(p, {n \in DOMAIN UKChoices :
                        /\ UKMatchesWith(s, p, UKChoices[n])
                        /\ WordBoundary(s, UKEnd(p, UKChoices[n]))})
    ELSE -1

\* postal_patterns[1] at p: \b[0-9]{5}(?:-[0-9]{4})?\b
USWordEnd(s, p) ==
    IF WordBoundary(s, p) /\ \A k \in 0..4 : At(s, p + k, Digits)
    THEN IF /\ At(s, p + 5, {"-"}) /\ \A k \in 6..9 : At(s, p + k, Digits)
            /\ WordBoundary(s, p + 10)
         THEN p + 10
         ELSE IF WordBoundary(s, p + 5) THEN p + 5 ELSE -1
    ELSE -1

PostalEnd(n, s, p) == IF n = 1 THEN UKWordEnd(s, p) ELSE USWordEnd(s, p)

\* postal_match.group(0) for the match found at p, None for no match
PostalGroup(n, s, p) == IF p = -1 THEN NoneValue ELSE Slice(s, p, PostalEnd(n, s, p))

\* re.search(postal_patterns[n], address, re.IGNORECASE)
PostalSearch(n, s) ==
    PostalGroup(n, s, MinOrNone({p \in 0..(Len(s) - 1) : PostalEnd(n, s, p) # -1}))

\* for pattern in postal_patterns: the first pattern that matches, then break
FirstPattern(uk, s) == IF uk # NoneValue THEN uk ELSE PostalSearch(2, s)

postal_code(s) == FirstPattern(PostalSearch(1, s), s)

\* the building number accepted without the whitespace after it
BuildingToken_Unterminated(s, w, e) ==
    IF e > w /\ At(s, w, Digits) THEN Slice(s, w, e) ELSE NoneValue

\* group(1) of ^\s*(\d+[-\w]*)\s: the token from w to e, which starts with a
\* digit and is followed by whitespace
BuildingToken(s, w, e) ==
    IF e > w /\ At(s, w, Digits) /\ At(s, e, Spaces) THEN Slice(s, w, e) ELSE NoneValue

\* the token that starts after the leading whitespace
BuildingFrom(s, w) == BuildingToken(s, w, w + RunLen(s, w, WordChars \cup {"-"}))

building_number(s) == BuildingFrom(s, RunLen(s, 0, Spaces))

\* street_pattern at p after d digits and w whitespace characters: the lazy
\* group takes one character, because the optional suffix may match nothing.
\* The value is group(1).strip(), None standing for no match at p.
StreetGroup(s, p, d, w) ==
    IF d < 1 \/ w < 1 THEN NoneValue
    ELSE IF At(s, p + d + w, Letters) THEN <<s[p + d + w + 1]>>
    ELSE IF w >= 2 THEN <<>>
    ELSE NoneValue

StreetAfterDigits(s, p, d) == StreetGroup(s, p, d, RunLen(s, p + d, Spaces))

StreetAt(s, p) == StreetAfterDigits(s, p, RunLen(s, p, Digits))

StreetFound(s, p) == IF p = -1 THEN NoneValue ELSE StreetAt(s, p)

\* re.search(street_pattern, address, re.IGNORECASE), then group(1).strip()
street(s) ==
    StreetFound(s, MinOrNone({p \in 0..(Len(s) - 1) : StreetAt(s, p) # NoneValue}))

extract_address_components(s) ==
    IF s = <<>>
    THEN [postal_code |-> NoneValue, city |-> NoneValue, street |-> NoneValue,
          building_number |-> NoneValue]
    ELSE [postal_code |-> postal_code(s), city |-> NoneValue, street |-> street(s),
          building_number |-> building_number(s)]

(***************************************************************************)
(* find_best_address_match: its loop body and its return                   *)
(***************************************************************************)
\* the latest candidate always taken
UpdateBest_Latest(best, sc, mt) == [best_score |-> sc, best_match |-> mt]

\* a later candidate of equal score taken
UpdateBest_AtLeast(best, sc, mt) ==
    IF sc >= best.best_score
    THEN [best_score |-> sc, best_match |-> mt]
    ELSE best

\* if score > best_score: best_score = score; best_match = match
UpdateBest(best, sc, mt) ==
    IF sc > best.best_score
    THEN [best_score |-> sc, best_match |-> mt]
    ELSE best

\* the score zeroed when the gate closes
ThresholdGate_Zeroed(bs, bm, minc) ==
    IF bs < minc
    THEN [confidence |-> 0, matched_text |-> NoneValue]
    ELSE [confidence |-> bs, matched_text |-> bm]

\* the matched text never surfaced
ThresholdGate_NoText(bs, bm, minc) == [confidence |-> bs, matched_text |-> NoneValue]

\* if best_score < min_confidence: return best_score, None
\* return best_score, best_match
ThresholdGate(bs, bm, minc) ==
    IF bs < minc
    THEN [confidence |-> bs, matched_text |-> NoneValue]
    ELSE [confidence |-> bs, matched_text |-> bm]

(***************************************************************************)
(* Inputs                                                                  *)
(***************************************************************************)
MaxNormParts == 3
MaxCandParts == 3
MaxTailParts == 1
PadLen == 100

RECURSIVE Concats(_, _)
\* the strings made of at most n pieces
Concats(pieces, n) ==
    IF n = 0 THEN {<<>>}
    ELSE LET shorter == Concats(pieces, n - 1)
         IN shorter \cup {x \o y : x \in shorter, y \in pieces}

NormPieces == { <<"s","t">>, <<"r","d">>, <<"a","v","e">>, <<"d","r">>, <<"l","n">>,
                <<"b","l","v","d">>, <<".">>, <<" ">>, <<",">>, <<"M","a">>, <<"1">> }
AddressInputs == Concats(NormPieces, MaxNormParts)

StreetA == <<"1"," ","A"," ","S","t">>
TownA == <<"E","l","y">>
PostcodeA == <<"W","1"," ","1","A","A">>
CountryA == <<"U","K">>
StreetB == <<"9"," ","B"," ","R","o","a","d">>
TownB == <<"A","y","r">>

RefA == [address_line1 |-> StreetA, town |-> TownA, postcode |-> PostcodeA,
         country |-> CountryA]
RefB == [address_line1 |-> StreetB, town |-> TownB, postcode |-> <<>>,
         country |-> <<>>]
\* a mapping with no key at all
RefNone == <<>>

RefKeys == {"address_line1", "town", "postcode", "country"}
\* RefA with the fields outside `keep` set to the empty string
Blanked(keep) == [k \in RefKeys |-> IF k \in keep THEN RefA[k] ELSE <<>>]

CompareReferences ==
    {Blanked(keep) : keep \in SUBSET RefKeys}
    \cup {RefNone, [postcode |-> <<" ">>], [town |-> TownA, postcode |-> <<" ">> \o PostcodeA]}

CandPieces == { StreetA \o <<",", " ">>, TownA \o <<" ">>, PostcodeA, <<"x", " ">>, <<",">> }
CompareCandidates == Concats(CandPieces, MaxCandParts)

SnippetA == StreetA \o <<",", " ">> \o TownA \o <<" ">> \o PostcodeA \o <<" ">>
SnippetB == StreetB \o <<",", " ">> \o TownB \o <<" ">>
SnippetZ == <<"F","a","x"," ","1","2","3","4","5"," ">>
Snippets == {SnippetA, SnippetB, SnippetZ}

PadTable == <<"w","e","l","c","o","m","e"," ","t","o"," ","o","u","r"," ",
              "s","h","o","p",","," ">>
\* PadLen characters of page text that holds no anchor
Pad == [i \in 1..PadLen |-> PadTable[((i - 1) % Len(PadTable)) + 1]]

Texts == {h \o m \o t : h \in Concats(Snippets, 1), m \in {<<>>, Pad},
                        t \in Concats(Snippets, MaxTailParts)}
BestReferences == {RefA, RefB, RefNone}
MaxExtractParts == 3
PiecePostal == <<"W","1"," ","1","A","A"," ">>
PieceStreet == <<"<","b",">","9"," ","B"," ","R","o","a","d","<","/","b",">"," ">>
PieceNumbered == <<"R","o","a","d"," ","7"," ">>
\* an anchor followed by PadLen characters that hold none, or one alone
ExtractBlocks == {PiecePostal \o Pad, PieceStreet \o Pad, PieceNumbered \o Pad,
                  PieceNumbered}
ExtractTexts == Concats(ExtractBlocks, MaxExtractParts)
MinConfidences == {-10, 0, 50, 80}

MaxComponentParts == 3
ComponentPieces == { <<" ">>, <<"1">>, <<"2","b">>, <<"-">>, <<"M","a">>, <<",">>,
                     <<"1","2","3","4","5">>, PostcodeA }
ComponentInputs == Concats(ComponentPieces, MaxComponentParts)

(***************************************************************************)
(* The callers                                                             *)
(***************************************************************************)
InitNormalize ==
    /\ call = "normalize_address"
    /\ pc = "call"
    /\ passes = 0
    /\ address \in AddressInputs
    /\ reference_address = RefNone
    /\ candidate_address = <<>>
    /\ require_postal_match = TRUE
    /\ text = <<>>
    /\ min_confidence = 50
    /\ potential_addresses = <<>>
    /\ idx = 0
    /\ score = 0
    /\ match = NoneValue
    /\ best_score = 0
    /\ best_match = NoneValue
    /\ result = NoneValue
    /\ ExtractIdle
    /\ CoreAlone

InitCompare ==
    /\ call = "compare_addresses"
    /\ pc = "call"
    /\ passes = 0
    /\ address = <<>>
    /\ reference_address \in CompareReferences
    /\ candidate_address \in CompareCandidates
    /\ require_postal_match \in BOOLEAN
    /\ text = <<>>
    /\ min_confidence = 50
    /\ potential_addresses = <<>>
    /\ idx = 0
    /\ score = 0
    /\ match = NoneValue
    /\ best_score = 0
    /\ best_match = NoneValue
    /\ result = NoneValue
    /\ ExtractIdle
    /\ CoreAlone

InitBest ==
    /\ call = "find_best_address_match"
    /\ pc = "call"
    /\ passes = 0
    /\ address = <<>>
    /\ reference_address \in BestReferences
    /\ candidate_address = <<>>
    /\ require_postal_match = TRUE
    /\ text \in Texts
    /\ min_confidence \in MinConfidences
    /\ potential_addresses = <<>>
    /\ idx = 0
    /\ score = 0
    /\ match = NoneValue
    /\ best_score = 0
    /\ best_match = NoneValue
    /\ result = NoneValue
    /\ ExtractIdle
    /\ CoreAlone

\* result = normalize_address(address)
NormalizeCall ==
    /\ call = "normalize_address" /\ pc = "call"
    /\ result' = normalize_address(address)
    /\ passes' = 1
    /\ pc' = "done"
    /\ UNCHANGED <<call, address, reference_address, candidate_address,
                   require_postal_match, text, min_confidence, potential_addresses,
                   idx, score, match, best_score, best_match, outsideMatcher>>

\* the caller passes the normalized string through normalize_address again
NormalizeAgain ==
    /\ call = "normalize_address" /\ pc = "done" /\ passes = 1
    /\ address' = result
    /\ result' = normalize_address(result)
    /\ passes' = 2
    /\ UNCHANGED <<call, pc, reference_address, candidate_address,
                   require_postal_match, text, min_confidence, potential_addresses,
                   idx, score, match, best_score, best_match, outsideMatcher>>

\* result = compare_addresses(reference_address, candidate_address, require_postal_match)
CompareCall ==
    /\ call = "compare_addresses" /\ pc = "call"
    /\ result' = compare_addresses(reference_address, candidate_address,
                                   require_postal_match)
    /\ pc' = "done"
    /\ UNCHANGED <<call, passes, address, reference_address, candidate_address,
                   require_postal_match, text, min_confidence, potential_addresses,
                   idx, score, match, best_score, best_match, outsideMatcher>>

\* find_best_address_match up to the for loop
BestExtract ==
    /\ call = "find_best_address_match" /\ pc = "call"
    /\ potential_addresses' = extract_addresses_from_text(text)
    /\ IF potential_addresses' = <<>>
       THEN /\ result' = [confidence |-> 0, matched_text |-> NoneValue]
            /\ pc' = "done"
       ELSE /\ result' = result
            /\ pc' = "loop"
    /\ best_score' = 0
    /\ best_match' = NoneValue
    /\ UNCHANGED <<call, passes, address, reference_address, candidate_address,
                   require_postal_match, text, min_confidence, idx, score, match,
                   outsideMatcher>>

\* one iteration of `for address in potential_addresses`
BestLoop ==
    /\ call = "find_best_address_match" /\ pc = "loop"
    /\ idx < Len(potential_addresses)
    /\ \E r \in {compare_addresses(reference_address, potential_addresses[idx + 1], TRUE)} :
          /\ score' = r.confidence
          /\ match' = r.matched_text
    /\ \E best \in {UpdateBest([best_score |-> best_score, best_match |-> best_match],
                               score', match')} :
          /\ best_score' = best.best_score
          /\ best_match' = best.best_match
    /\ idx' = idx + 1
    /\ UNCHANGED <<call, pc, passes, address, reference_address, candidate_address,
                   require_postal_match, text, min_confidence, potential_addresses,
                   result, outsideMatcher>>

\* the statements after the loop
BestReturn ==
    /\ call = "find_best_address_match" /\ pc = "loop"
    /\ idx = Len(potential_addresses)
    /\ result' = ThresholdGate(best_score, best_match, min_confidence)
    /\ pc' = "done"
    /\ UNCHANGED <<call, passes, address, reference_address, candidate_address,
                   require_postal_match, text, min_confidence, potential_addresses,
                   idx, score, match, best_score, best_match, outsideMatcher>>

InitExtract ==
    /\ call = "extract_addresses_from_text"
    /\ pc = "call"
    /\ passes = 0
    /\ address = <<>>
    /\ reference_address = RefNone
    /\ candidate_address = <<>>
    /\ require_postal_match = TRUE
    /\ text \in ExtractTexts
    /\ min_confidence = 50
    /\ potential_addresses = <<>>
    /\ idx = 0
    /\ score = 0
    /\ match = NoneValue
    /\ best_score = 0
    /\ best_match = NoneValue
    /\ result = NoneValue
    /\ ExtractIdle
    /\ CoreAlone

\* extract_addresses_from_text up to the loops over address_patterns: the text
\* cleaned, every postal context appended, the street matches found
ExtractPostal ==
    /\ call = "extract_addresses_from_text" /\ pc = "call"
    /\ cleaned' = clean_text(text)
    /\ potential_addresses' = PostalWindows(cleaned', FindIter("postal", cleaned', 0))
    /\ pending' = StreetStarts(cleaned')
    /\ idx' = 0
    /\ pc' = "street"
    /\ UNCHANGED <<call, passes, address, reference_address, candidate_address,
                   require_postal_match, text, min_confidence, score, match,
                   best_score, best_match, result, outsideCore>>

\* one iteration of `for match in matches` under `for pattern in address_patterns`
ExtractStreet ==
    /\ call = "extract_addresses_from_text" /\ pc = "street"
    /\ idx < Len(pending)
    /\ potential_addresses' = AppendUnlessDuplicate(potential_addresses,
                                   StreetWindow(cleaned, pending[idx + 1]))
    /\ idx' = idx + 1
    /\ UNCHANGED <<call, pc, passes, address, reference_address, candidate_address,
                   require_postal_match, text, min_confidence, score, match,
                   best_score, best_match, result, cleaned, pending, outsideCore>>

\* return potential_addresses
ExtractReturn ==
    /\ call = "extract_addresses_from_text" /\ pc = "street"
    /\ idx = Len(pending)
    /\ result' = potential_addresses
    /\ pc' = "done"
    /\ UNCHANGED <<call, passes, address, reference_address, candidate_address,
                   require_postal_match, text, min_confidence, potential_addresses,
                   idx, score, match, best_score, best_match, cleaned, pending, outsideCore>>

InitComponents ==
    /\ call = "extract_address_components"
    /\ pc = "call"
    /\ passes = 0
    /\ address \in ComponentInputs
    /\ reference_address = RefNone
    /\ candidate_address = <<>>
    /\ require_postal_match = TRUE
    /\ text = <<>>
    /\ min_confidence = 50
    /\ potential_addresses = <<>>
    /\ idx = 0
    /\ score = 0
    /\ match = NoneValue
    /\ best_score = 0
    /\ best_match = NoneValue
    /\ result = NoneValue
    /\ ExtractIdle
    /\ CoreAlone

\* result = extract_address_components(address)
ComponentsCall ==
    /\ call = "extract_address_components" /\ pc = "call"
    /\ result' = extract_address_components(address)
    /\ pc' = "done"
    /\ UNCHANGED <<call, passes, address, reference_address, candidate_address,
                   require_postal_match, text, min_confidence, potential_addresses,
                   idx, score, match, best_score, best_match, outsideMatcher>>

(***************************************************************************)
(* Concurrent callers of the matching functions.  Every call runs in its   *)
(* own frame: the arguments and locals of a Python call belong to the      *)
(* call, and the functions read no module-level variable but the logger.   *)
(***************************************************************************)
CoreIdle ==
    /\ pc = "call"
    /\ passes = 0
    /\ address = <<>>
    /\ candidate_address = <<>>
    /\ require_postal_match = TRUE
    /\ text = <<>>
    /\ min_confidence = 50
    /\ potential_addresses = <<>>
    /\ idx = 0
    /\ score = 0
    /\ match = NoneValue
    /\ best_score = 0
    /\ best_match = NoneValue
    /\ result = NoneValue
    /\ ExtractIdle

MaxThreads == 2
Threads == 1..MaxThreads

\* every thread storing its locals in the same record
Cell_Shared(t) == 1

\* the frame that holds the locals of thread t's call
Cell(t) == t

\* the locals of a call before its first statement
FreshLocals == [cleaned |-> <<>>, pending |-> <<>>, potential_addresses |-> <<>>,
                idx |-> 0, best_score |-> 0, best_match |-> NoneValue]

\* the calls a thread may make, each with its string argument; every thread
\* passes the one mapping reference_address
ThreadCalls ==
    { [call |-> "normalize_address", arg |-> StreetA \o <<".">>],
      [call |-> "extract_address_components", arg |-> StreetB],
      [call |-> "compare_addresses", arg |-> SnippetA],
      [call |-> "extract_addresses_from_text", arg |-> SnippetB \o SnippetB],
      [call |-> "find_best_address_match", arg |-> SnippetA \o SnippetA] }

InitThreads ==
    /\ call = "threads"
    /\ CoreIdle
    /\ reference_address = RefA
    /\ task \in [Threads -> {[call |-> c.call, arg |-> c.arg, pc |-> "call",
                               result |-> NoneValue] : c \in ThreadCalls}]
    /\ locals = [c \in Threads |-> FreshLocals]
    /\ IdleExcept("threads")

\* thread t returns v
Return(t, v) == task' = [task EXCEPT ![t].result = v, ![t].pc = "done"]

\* thread t moves to the part `to` of its call
Goto(t, to) == task' = [task EXCEPT ![t].pc = to]

At_(t, c, where) == task[t].call = c /\ task[t].pc = where

ThreadNormalize(t) ==
    /\ At_(t, "normalize_address", "call")
    /\ Return(t, normalize_address(task[t].arg))
    /\ UNCHANGED <<outsideThreads, locals>>

ThreadComponents(t) ==
    /\ At_(t, "extract_address_components", "call")
    /\ Return(t, extract_address_components(task[t].arg))
    /\ UNCHANGED <<outsideThreads, locals>>

ThreadCompare(t) ==
    /\ At_(t, "compare_addresses", "call")
    /\ Return(t, compare_addresses(reference_address, task[t].arg, TRUE))
    /\ UNCHANGED <<outsideThreads, locals>>

\* extract_addresses_from_text up to the loops over address_patterns
ThreadExtractPostal(t) ==
    /\ At_(t, "extract_addresses_from_text", "call")
    /\ \E c \in {clean_text(task[t].arg)} :
          locals' = [locals EXCEPT ![Cell(t)] =
                       [@ EXCEPT !.cleaned = c,
                                 !.potential_addresses =
                                     PostalWindows(c, FindIter("postal", c, 0)),
                                 !.pending = StreetStarts(c),
                                 !.idx = 0]]
    /\ Goto(t, "street")
    /\ UNCHANGED outsideThreads

\* one iteration of the loops over the street matches
ThreadExtractStreet(t) ==
    /\ At_(t, "extract_addresses_from_text", "street")
    /\ \E f \in {locals[Cell(t)]} :
          /\ f.idx < Len(f.pending)
          /\ locals' = [locals EXCEPT ![Cell(t)] =
                          [@ EXCEPT !.potential_addresses =
                                        AppendUnlessDuplicate(f.potential_addresses,
                                            StreetWindow(f.cleaned, f.pending[f.idx + 1])),
                                    !.idx = f.idx + 1]]
    /\ UNCHANGED <<outsideThreads, task>>

ThreadExtractReturn(t) ==
    /\ At_(t, "extract_addresses_from_text", "street")
    /\ locals[Cell(t)].idx = Len(locals[Cell(t)].pending)
    /\ Return(t, locals[Cell(t)].potential_addresses)
    /\ UNCHANGED <<outsideThreads, locals>>

\* find_best_address_match up to the for loop
ThreadBestExtract(t) ==
    /\ At_(t, "find_best_address_match", "call")
    /\ \E found \in {extract_addresses_from_text(task[t].arg)} :
          /\ locals' = [locals EXCEPT ![Cell(t)] =
                          [@ EXCEPT !.potential_addresses = found, !.idx = 0,
                                    !.best_score = 0, !.best_match = NoneValue]]
          /\ IF found = <<>>
             THEN Return(t, [confidence |-> 0, matched_text |-> NoneValue])
             ELSE Goto(t, "loop")
    /\ UNCHANGED outsideThreads

\* one iteration of `for address in potential_addresses`
ThreadBestLoop(t) ==
    /\ At_(t, "find_best_address_match", "loop")
    /\ \E f \in {locals[Cell(t)]} :
          /\ f.idx < Len(f.potential_addresses)
          /\ \E r \in {compare_addresses(reference_address,
                                          f.potential_addresses[f.idx + 1], TRUE)} :
             \E best \in {UpdateBest([best_score |-> f.best_score,
                                       best_match |-> f.best_match],
                                      r.confidence, r.matched_text)} :
                locals' = [locals EXCEPT ![Cell(t)] =
                             [@ EXCEPT !.best_score = best.best_score,
                                       !.best_match = best.best_match,
                                       !.idx = f.idx + 1]]
    /\ UNCHANGED <<outsideThreads, task>>

\* the statements after the loop, min_confidence at its default
ThreadBestReturn(t) ==
    /\ At_(t, "find_best_address_match", "loop")
    /\ \E f \in {locals[Cell(t)]} :
          /\ f.idx = Len(f.potential_addresses)
          /\ Return(t, ThresholdGate(f.best_score, f.best_match, min_confidence))
    /\ UNCHANGED <<outsideThreads, locals>>

NextThreads ==
    \E t \in Threads :
        \/ ThreadNormalize(t) \/ ThreadComponents(t) \/ ThreadCompare(t)
        \/ ThreadExtractPostal(t) \/ ThreadExtractStreet(t) \/ ThreadExtractReturn(t)
        \/ ThreadBestExtract(t) \/ ThreadBestLoop(t) \/ ThreadBestReturn(t)

SpecThreads == InitThreads /\ [][NextThreads]_vars

(***************************************************************************)
(* batch_check_urls and check_url_accessibility                            *)
(***************************************************************************)
MaxUrls == 3
MaxWorkers == 2
Urls == {"a", "b", "c"}

\* what requests.head may do: answer with a status code, raise a
\* requests.RequestException, or raise another exception
Responses == {[kind |-> "response", status_code |-> 200],
              [kind |-> "response", status_code |-> 404],
              [kind |-> "RequestException", message |-> <<"t","i","m","e","o","u","t">>],
              [kind |-> "Exception", message |-> <<"b","a","d">>]}

\* the dictionary check_url_accessibility returns, or the exception it lets
\* through (response_time and content_type are left out)
check_url_accessibility(url, r) ==
    CASE r.kind = "response" ->
             [url |-> url, accessible |-> (200 <= r.status_code /\ r.status_code < 400),
              status_code |-> r.status_code, error |-> NoneValue]
      [] r.kind = "RequestException" ->
             [url |-> url, accessible |-> FALSE, status_code |-> NoneValue,
              error |-> r.message]
      [] r.kind = "Exception" -> [raised |-> r.message]

\* the record for a failed future marked accessible
ExceptionRecord_Accessible(url, e) == [url |-> url, accessible |-> TRUE, error |-> e]

\* {"url": url, "accessible": False, "error": str(e)}
ExceptionRecord(url, e) == [url |-> url, accessible |-> FALSE, error |-> e]

\* try: result = future.result() ... except Exception as e: ...
Collected(url, checked) ==
    IF "raised" \in DOMAIN checked THEN ExceptionRecord(url, checked.raised)
    ELSE checked

\* the orders in which list(set(urls)) may list the distinct URLs
Orders(S) == {q \in [1..Cardinality(S) -> S] : Range(q) = S}

InitBatch ==
    /\ call = "batch_check_urls"
    /\ CoreIdle
    /\ reference_address = RefNone
    /\ IdleExcept("batch")
    /\ urls \in UNION {[1..n -> Urls] : n \in 0..MaxUrls}
    /\ max_concurrent \in 1..MaxWorkers
    /\ unique_urls = <<>>
    /\ running = {}
    /\ outcome = <<>>
    /\ results = <<>>

\* results = [], unique_urls = list(set(urls)), every check submitted
BatchSubmit ==
    /\ call = "batch_check_urls" /\ pc = "call"
    /\ unique_urls' \in Orders(Range(urls))
    /\ results' = <<>>
    /\ pc' = "pool"
    /\ UNCHANGED <<call, result, urls, max_concurrent, running, outcome, outsideBatch>>

\* an idle worker of the pool takes the oldest waiting check
WorkerStart ==
    /\ call = "batch_check_urls" /\ pc = "pool"
    /\ unique_urls # <<>>
    /\ Cardinality(running) < max_concurrent
    /\ running' = running \cup {Head(unique_urls)}
    /\ unique_urls' = Tail(unique_urls)
    /\ UNCHANGED <<call, pc, result, urls, max_concurrent, outcome, results, outsideBatch>>

\* a worker's check_url_accessibility call ends
WorkerFinish ==
    /\ call = "batch_check_urls" /\ pc = "pool"
    /\ \E u \in running, r \in Responses :
          /\ running' = running \ {u}
          /\ outcome' = [v \in DOMAIN outcome \cup {u} |->
                            IF v = u THEN check_url_accessibility(u, r) ELSE outcome[v]]
    /\ UNCHANGED <<call, pc, result, urls, max_concurrent, unique_urls, results,
                   outsideBatch>>

\* as_completed yields a finished future it has not yielded yet
BatchCollect ==
    /\ call = "batch_check_urls" /\ pc = "pool"
    /\ \E u \in DOMAIN outcome \ {results[n].url : n \in DOMAIN results} :
          results' = Append(results, Collected(u, outcome[u]))
    /\ UNCHANGED <<call, pc, result, urls, max_concurrent, unique_urls, running,
                   outcome, outsideBatch>>

\* every future yielded, the executor shut down: return results
BatchReturn ==
    /\ call = "batch_check_urls" /\ pc = "pool"
    /\ unique_urls = <<>> /\ running = {}
    /\ DOMAIN outcome = {results[n].url : n \in DOMAIN results}
    /\ result' = results
    /\ pc' = "done"
    /\ UNCHANGED <<call, urls, max_concurrent, unique_urls, running, outcome, results,
                   outsideBatch>>

NextBatch == BatchSubmit \/ WorkerStart \/ WorkerFinish \/ BatchCollect \/ BatchReturn

SpecBatch == InitBatch /\ [][NextBatch]_vars

(***************************************************************************)
(* process_merchant_verification                                           *)
(***************************************************************************)
MaxMerchants == 2
max_sites_to_check == 5
StopConfidence == 80
FoundThreshold == 30

\* a search result: whether its URL holds one of unwanted_domains, and the
\* confidence find_address_on_page reports for its page
Site(url, unwanted, c) == [url |-> url, unwanted |-> unwanted, confidence |-> c]

\* what duckduckgo_search may do: raise once its retries are used up, or
\* return a list of results
SearchOutcomes ==
    {[raised |-> TRUE, search_results |-> <<>>]} \cup
    {[raised |-> FALSE, search_results |-> found] : found \in
        { <<>>, << Site("fb", TRUE, 90) >>,
          << Site("g", FALSE, 90), Site("h", FALSE, 50) >>,
          << Site("a", FALSE, 20), Site("fb", TRUE, 90), Site("b", FALSE, 50),
             Site("c", FALSE, 20), Site("d", FALSE, 50), Site("e", FALSE, 0),
             Site("f", FALSE, 90) >> }}

\* what checking one site may do
SiteOutcomes == {"new_page raises", "navigate fails", "processing raises", "processed"}

\* the search error let through to the caller
OnSearchError_Propagate == "done"

\* except Exception as e: logger.error(...), then on to the record
OnSearchError == "record"

\* for result in search_results: if not any(domain in url ...): append
Filtered(listed) == SelectSeq(listed, LAMBDA r : ~r.unwanted)

\* the sites the loop visits: filtered_results[:max_sites_to_check]
SiteBudget == Min({Len(filtered_results), max_sites_to_check})

website_result(site) ==
    [url |-> site.url, address_found |-> site.confidence > FoundThreshold,
     confidence |-> site.confidence]

InitProcess ==
    /\ call = "process_merchant_verification"
    /\ CoreIdle
    /\ reference_address = RefNone
    /\ IdleExcept("process")
    /\ merchants_df \in {[k \in 1..n |-> k] : n \in 0..MaxMerchants}
    /\ verification_results = NoDict
    /\ index = 0
    /\ merchant_result = NoDict
    /\ filtered_results = <<>>
    /\ site_i = 0
    /\ best_confidence = 0
    /\ best_result = NoDict

\* the statements before the loop over the merchants
ProcessStart ==
    /\ call = "process_merchant_verification" /\ pc = "call"
    /\ verification_results' = [total_merchants |-> Len(merchants_df),
                                processed_merchants |-> 0,
                                successful_verifications |-> 0,
                                results |-> <<>>]
    /\ index' = 0
    /\ pc' = "merchant"
    /\ UNCHANGED <<call, result, merchants_df, merchant_result, filtered_results, site_i,
                   best_confidence, best_result, outsideProcess>>

\* the next merchant: its record started, the search made, the results filtered
MerchantSearch ==
    /\ call = "process_merchant_verification" /\ pc = "merchant"
    /\ index < Len(merchants_df)
    /\ \E found \in SearchOutcomes :
          /\ merchant_result' =
                 [merchant_id |-> merchants_df[index + 1],
                  search_successful |-> (found.search_results # <<>>),
                  websites_checked |-> 0,
                  best_match |-> NoDict,
                  all_results |-> <<>>]
          /\ IF found.search_results = <<>>
             THEN /\ pc' = IF found.raised THEN OnSearchError ELSE "record"
                  /\ UNCHANGED <<filtered_results, site_i, best_confidence, best_result>>
             ELSE /\ filtered_results' = Filtered(found.search_results)
                  /\ site_i' = 0
                  /\ best_confidence' = 0
                  /\ best_result' = NoDict
                  /\ pc' = "site"
    /\ result' = IF pc' = "done" THEN [raised |-> "search failed"] ELSE result
    /\ UNCHANGED <<call, merchants_df, verification_results, index, outsideProcess>>

\* the site processed, a later site of equal confidence taking the best match
Visited_LastWins(site) ==
    /\ merchant_result' =
           [merchant_result EXCEPT !.all_results = Append(@, website_result(site)),
                                   !.websites_checked = @ + 1]
    /\ IF site.confidence >= best_confidence
       THEN /\ best_confidence' = site.confidence
            /\ best_result' = website_result(site)
       ELSE UNCHANGED <<best_confidence, best_result>>
    /\ pc' = IF site.confidence > StopConfidence THEN "record" ELSE "site"

\* the site processed: its result recorded, the best match updated
Visited(site) ==
    /\ merchant_result' =
           [merchant_result EXCEPT !.all_results = Append(@, website_result(site)),
                                   !.websites_checked = @ + 1]
    /\ IF site.confidence > best_confidence
       THEN /\ best_confidence' = site.confidence
            /\ best_result' = website_result(site)
       ELSE UNCHANGED <<best_confidence, best_result>>
    /\ pc' = IF site.confidence > StopConfidence THEN "record" ELSE "site"

\* one iteration of the loop over filtered_results[:max_sites_to_check]
SiteCheck ==
    /\ call = "process_merchant_verification" /\ pc = "site"
    /\ site_i < SiteBudget
    /\ \E met \in SiteOutcomes :
          IF met = "processed"
          THEN Visited(filtered_results[site_i + 1])
          ELSE UNCHANGED <<merchant_result, best_confidence, best_result, pc>>
    /\ site_i' = site_i + 1
    /\ UNCHANGED <<call, result, merchants_df, verification_results, index,
                   filtered_results, outsideProcess>>

\* merchant_result completed after the loop over the sites
Completed(m) ==
    IF m.search_successful THEN [m EXCEPT !.best_match = best_result] ELSE m

\* if best_result and best_result["address_found"]
Verified(m) ==
    m.search_successful /\ best_result # NoDict /\ best_result.address_found

\* the record appended without counting the merchant as processed
MerchantRecord_Uncounted ==
    /\ call = "process_merchant_verification"
    /\ pc = "record" \/ (pc = "site" /\ site_i = SiteBudget)
    /\ verification_results' =
           [verification_results EXCEPT
               !.results = Append(@, Completed(merchant_result)),
               !.successful_verifications =
                   IF Verified(merchant_result) THEN @ + 1 ELSE @]
    /\ index' = index + 1
    /\ pc' = "merchant"
    /\ UNCHANGED <<call, result, merchants_df, merchant_result, filtered_results, site_i,
                   best_confidence, best_result, outsideProcess>>

\* the statements after the loop over the sites, or after the except clause
MerchantRecord ==
    /\ call = "process_merchant_verification"
    /\ pc = "record" \/ (pc = "site" /\ site_i = SiteBudget)
    /\ verification_results' =
           [verification_results EXCEPT
               !.results = Append(@, Completed(merchant_result)),
               !.processed_merchants = @ + 1,
               !.successful_verifications =
                   IF Verified(merchant_result) THEN @ + 1 ELSE @]
    /\ index' = index + 1
    /\ pc' = "merchant"
    /\ UNCHANGED <<call, result, merchants_df, merchant_result, filtered_results, site_i,
                   best_confidence, best_result, outsideProcess>>

\* the summary after the loop, whose success rate divides by
\* processed_merchants, and the return
ProcessFinish ==
    /\ call = "process_merchant_verification" /\ pc = "merchant"
    /\ index = Len(merchants_df)
    /\ result' = IF verification_results.processed_merchants = 0
                  THEN [raised |-> "ZeroDivisionError"]
                  ELSE verification_results
    /\ pc' = "done"
    /\ UNCHANGED <<call, processVars, outsideProcess>>

NextProcess == ProcessStart \/ MerchantSearch \/ SiteCheck \/ MerchantRecord
               \/ ProcessFinish

SpecProcess == InitProcess /\ [][NextProcess]_vars

(***************************************************************************)
(* The page scorers: WebAutomator.find_address_on_page and                 *)
(* MerchantVerifier.check_address_match                                    *)
(***************************************************************************)
MaxPageParts == 3

\* MerchantVerifier.clean_text
verifier_clean_text(t) ==
    IF t = <<>> THEN <<>> ELSE Strip(CollapseSpace(SubNonWord(Lower(t))))

\* sum(1 for word in address_words if word in page_text)
WordsIn(words, t) == Cardinality({k \in DOMAIN words : Contains(t, words[k])})

\* page_text.find(x)
Find(t, x) == IF x = <<>> THEN 0 ELSE NextOccurrence(t, x, 1) - 1

\* page_text[max(0, idx - width) : min(len(page_text), idx + width)]
Around(t, at, width) == Slice(t, Max({0, at - width}), Min({Len(t), at + width}))

\* `x and x in page_text`
FoundOn(t, x) == x # <<>> /\ Contains(t, x)

Weight(found, w) == IF found THEN w ELSE 0

\* found_words > len(address_words) / 2, for a non-empty address_line
PartialAddress(t, words) == 2 * WordsIn(words, t) > Len(words)

\* the weights of find_address_on_page added up
PageConfidence(t, name, line, town, postcode, country) ==
    Weight(FoundOn(t, name), 20) + Weight(FoundOn(t, line), 30)
    + Weight(FoundOn(t, town), 25) + Weight(FoundOn(t, postcode), 35)
    + Weight(FoundOn(t, country), 10)
    + Weight(line # <<>> /\ PartialAddress(t, Split(line)), 15)

\* the confidence reported as it was summed
PageCap_None(confidence) == confidence

\* min(confidence, 100)
PageCap(confidence) == IF confidence < 100 THEN confidence ELSE 100

\* result["address_text"]
AddressText(t, town, postcode) ==
    IF FoundOn(t, postcode) THEN Strip(Around(t, Find(t, postcode), 100))
    ELSE IF FoundOn(t, town) THEN Strip(Around(t, Find(t, town), 100))
    ELSE NoneValue

\* the result for a page whose raw confidence is c (the screenshots left out)
PageResult(t, town, postcode, c) ==
    [address_found |-> c > FoundThreshold,
     address_confidence |-> PageCap(c),
     address_text |-> IF c > FoundThreshold THEN AddressText(t, town, postcode)
                      ELSE NoneValue]

PageScored(t, name, line, town, postcode, country) ==
    PageResult(t, town, postcode, PageConfidence(t, name, line, town, postcode, country))

\* find_address_on_page for a page whose innerText is inner
find_address_on_page(inner, m) ==
    PageScored(Lower(inner), Lower(Get(m, "merchant_name")),
               Lower(Get(m, "address_line1")), Lower(Get(m, "town")),
               Lower(Get(m, "postcode")), Lower(Get(m, "country")))

\* the result find_address_on_page starts from, and returns when reading the
\* page raises
PageDefault == [address_found |-> FALSE, address_confidence |-> 0,
                address_text |-> NoneValue]

\* address_chunks: the text around the postcode, then the text around the town
Chunks(t, town, postcode) ==
    (IF Contains(t, postcode) THEN <<Around(t, Find(t, postcode), 100)>> ELSE <<>>)
    \o (IF Contains(t, town) THEN <<Around(t, Find(t, town), 100)>> ELSE <<>>)

\* nearby_address_match
Nearby(words, chunks) ==
    \E n \in DOMAIN chunks : 3 * WordsIn(words, chunks[n]) > Len(words)

\* matching_text
MatchingText(t, town, postcode) ==
    IF Contains(t, postcode) THEN Around(t, Find(t, postcode), 50)
    ELSE IF Contains(t, town) THEN Around(t, Find(t, town), 50)
    ELSE NoneValue

\* the first of exact, partial and nearby address match that holds
AddressWeight(exact, partial, nearby) ==
    IF exact THEN 30 ELSE IF partial THEN 15 ELSE IF nearby THEN 10 ELSE 0

MatchResult(t, town, postcode, country, exact, partial, nearby) ==
    [has_address |-> exact,
     has_town |-> Contains(t, town),
     has_postcode |-> Contains(t, postcode),
     has_country |-> Contains(t, country),
     address_partial_match |-> partial,
     nearby_address_match |-> nearby,
     confidence |-> Min({100, AddressWeight(exact, partial, nearby)
                              + Weight(Contains(t, town), 20)
                              + Weight(Contains(t, postcode), 40)
                              + Weight(Contains(t, country), 10)}),
     matching_text |-> MatchingText(t, town, postcode)]

MatchCleaned(t, line, town, postcode, country) ==
    MatchResult(t, town, postcode, country, Contains(t, line),
                2 * WordsIn(Split(line), t) > Len(Split(line)),
                Nearby(Split(line), Chunks(t, town, postcode)))

check_address_match(page_content, m) ==
    MatchCleaned(verifier_clean_text(page_content),
                 verifier_clean_text(m["address_line1"]),
                 verifier_clean_text(m["town"]),
                 verifier_clean_text(m["postcode"]),
                 verifier_clean_text(m["country"]))

NameA == <<"M","a">>
PagePieces == {NameA \o <<" ">>, StreetA \o <<",", " ">>, TownA \o <<" ">>,
               PostcodeA \o <<" ">>, CountryA \o <<" ">>, <<"1"," ","x"," ","S","t"," ">>}
ScanPages == Concats(PagePieces, MaxPageParts)
\* the merchant rows: every field either filled in or the empty string
ScanMerchants ==
    {[merchant_name |-> n, address_line1 |-> a, town |-> t, postcode |-> p,
      country |-> c] : n \in {<<>>, NameA}, a \in {<<>>, StreetA}, t \in {<<>>, TownA},
                       p \in {<<>>, PostcodeA}, c \in {<<>>, CountryA}}

InitScan ==
    /\ call \in {"find_address_on_page", "check_address_match"}
    /\ CoreIdle
    /\ reference_address = RefNone
    /\ IdleExcept("scan")
    /\ page_text \in ScanPages
    /\ merchant_data \in ScanMerchants

\* what the browser does during the call: reading the page raises, the full
\* page screenshot raises, or nothing raises
PageEvents == {"unreadable", "screenshot_raises", "returns"}

\* the result returned when the browser does `how` during a call that would
\* otherwise return r
Caught(how, r) ==
    IF how = "unreadable" THEN PageDefault
    ELSE IF how = "screenshot_raises" /\ r.address_found
         THEN [r EXCEPT !.address_text = NoneValue]
    ELSE r

\* result = find_address_on_page(page, merchant_data)
ScanFind ==
    /\ call = "find_address_on_page" /\ pc = "call"
    /\ \E how \in PageEvents :
          result' = Caught(how, find_address_on_page(page_text, merchant_data))
    /\ pc' = "done"
    /\ UNCHANGED <<call, scanVars, outsideScan>>

\* result = check_address_match(page_content, merchant_data)
ScanCheck ==
    /\ call = "check_address_match" /\ pc = "call"
    /\ result' = check_address_match(page_text, merchant_data)
    /\ pc' = "done"
    /\ UNCHANGED <<call, scanVars, outsideScan>>

NextScan == ScanFind \/ ScanCheck

SpecScan == InitScan /\ [][NextScan]_vars

(***************************************************************************)
(* _clean_merchant_data                                                    *)
(***************************************************************************)
MaxRows == 3

\* a missing cell: float("nan"); None is NoneValue
NaN == <<"NaN">>
isna(v) == v = NaN \/ v = NoneValue

\* Series.fillna("").astype(str)
fillna(v) == IF isna(v) THEN <<>> ELSE v

\* Series.astype(str) of one cell: str(None) and str(nan), or, where the
\* library keeps missing values through the conversion, the missing value
astype_str(v, keeps_missing) ==
    IF isna(v) /\ keeps_missing THEN NaN
    ELSE IF v = NoneValue THEN <<"N","o","n","e">>
    ELSE IF v = NaN THEN <<"n","a","n">>
    ELSE v

\* Series.str.strip() of one cell
str_strip(v) == IF isna(v) THEN v ELSE Strip(v)

\* cleaned_df with the text columns filled and merchant_id standardized; each
\* row carries its index label
Standardized(rows, keeps_missing) ==
    [k \in DOMAIN rows |->
        [index |-> k - 1,
         merchant_id |-> str_strip(astype_str(rows[k].merchant_id, keeps_missing)),
         merchant_name |-> fillna(rows[k].merchant_name),
         address_line1 |-> fillna(rows[k].address_line1)]]

\* empty_condition
empty_condition(r) ==
    \/ r.merchant_id = <<>>
    \/ r.merchant_id = <<"n","a","n">>
    \/ r.merchant_id = <<"N","o","n","e">>
    \/ isna(r.merchant_id)

\* cleaned_df[~empty_condition]
WithoutEmpty(rows) ==
    LET Keep(r) == ~empty_condition(r) IN SelectSeq(rows, Keep)

\* drop_duplicates(subset=["merchant_id"]) keeping every row
drop_duplicates_KeepAll(rows) == rows

\* drop_duplicates(subset=["merchant_id"], keep="first")
drop_duplicates(rows) ==
    LET First(r) == ~\E q \in Range(rows) :
                        q.index < r.index /\ q.merchant_id = r.merchant_id
    IN SelectSeq(rows, First)

_clean_merchant_data(rows, keeps_missing) ==
    drop_duplicates(WithoutEmpty(Standardized(rows, keeps_missing)))

IdA == <<"A">>
IdB == <<"B">>
\* the merchant_id cells of the input
RawIds == {IdA, <<" ">> \o IdA, IdB, <<>>, <<" ">>, <<"n","a","n">>,
           <<"N","o","n","e">>, NaN, NoneValue}
\* the rows of the input: an id, with its name and address present or missing
RawRows ==
    {[merchant_id |-> v, merchant_name |-> n[1], address_line1 |-> n[2]] :
        v \in RawIds, n \in {<<NameA, StreetA>>, <<NaN, NoneValue>>}}
Tables == UNION {[1..n -> RawRows] : n \in 0..MaxRows}

InitClean ==
    /\ call = "_clean_merchant_data"
    /\ CoreIdle
    /\ reference_address = RefNone
    /\ IdleExcept("clean")
    /\ df \in Tables

\* result = _clean_merchant_data(df); the copy is what gets changed
CleanCall ==
    /\ call = "_clean_merchant_data" /\ pc = "call"
    /\ \E keeps_missing \in BOOLEAN :
          result' = _clean_merchant_data(df, keeps_missing)
    /\ pc' = "done"
    /\ UNCHANGED <<call, cleanVars, outsideClean>>

NextClean == CleanCall

SpecClean == InitClean /\ [][NextClean]_vars

(***************************************************************************)
(* extract_merchant_data                                                   *)
(***************************************************************************)
MerchantIdColumn == 16
MerchantNameColumn == 18
AddressColumn == 30

\* the workbooks: a path with no file, a file read_excel cannot read, or a
\* sheet with a header row of so many columns and the rows below it
ColumnCounts == {2, MerchantNameColumn, MerchantNameColumn + 1, AddressColumn + 2}
Workbooks ==
    {[exists |-> FALSE, readable |-> FALSE, columns |-> 0, rows |-> <<>>],
     [exists |-> TRUE, readable |-> FALSE, columns |-> 0, rows |-> <<>>]}
    \cup {[exists |-> TRUE, readable |-> TRUE, columns |-> n, rows |-> rows] :
             n \in ColumnCounts, rows \in Tables}

\* data_df = df.iloc[1:].reset_index(drop=True)
SkipFirst(rows) == SubSeq(rows, 2, Len(rows))

\* the check of the sheet's width passing for a sheet that reaches merchant_id
HasRequiredColumns_IdOnly(w) == w.columns > MerchantIdColumn

\* not (df.shape[1] <= max(required_columns))
HasRequiredColumns(w) == w.columns > MerchantNameColumn

\* merchants = pd.DataFrame(merchants_data)
Merchants(w, rows) ==
    [k \in DOMAIN rows |->
        [merchant_id |-> rows[k].merchant_id,
         merchant_name |-> rows[k].merchant_name,
         address_line1 |-> IF w.columns > AddressColumn THEN rows[k].address_line1
                           ELSE <<>>]]

\* what extract_merchant_data returns or raises for workbook w
extract_merchant_data(w, keeps_missing) ==
    IF ~w.exists THEN [raised |-> "FileNotFoundError"]
    ELSE IF ~w.readable THEN [raised |-> "ValueError"]
    ELSE IF ~HasRequiredColumns(w) THEN [raised |-> "ValueError"]
    ELSE [table |-> _clean_merchant_data(Merchants(w, SkipFirst(w.rows)), keeps_missing)]

InitLoad ==
    /\ call = "extract_merchant_data"
    /\ CoreIdle
    /\ reference_address = RefNone
    /\ IdleExcept("data")
    /\ workbook \in Workbooks
    /\ frame = <<>> /\ filters = <<>> /\ exact_match = FALSE

\* result = extract_merchant_data(file_path)
LoadCall ==
    /\ call = "extract_merchant_data" /\ pc = "call"
    /\ \E keeps_missing \in BOOLEAN :
          result' = extract_merchant_data(workbook, keeps_missing)
    /\ pc' = "done"
    /\ UNCHANGED <<call, dataVars, outsideData>>

NextLoad == LoadCall

SpecLoad == InitLoad /\ [][NextLoad]_vars

(***************************************************************************)
(* filter_merchants                                                        *)
(***************************************************************************)
MaxFrameRows == 3

\* filtered_df.columns
FrameColumns == {"town", "country"}

\* one cell against a filter value: ==, or str.contains(value, case=False,
\* na=False) on a column of strings
CellMatches(cell, value, exact) ==
    IF exact THEN cell = value
    ELSE ~isna(cell) /\ Contains(Lower(cell), Lower(value))

\* one pass of the loop over filters.items(), an unknown column emptying the table
ApplyFilter_Strict(rows, column, value, exact) ==
    IF column \notin FrameColumns THEN <<>>
    ELSE LET Keep(r) == CellMatches(r[column], value, exact) IN SelectSeq(rows, Keep)

\* one pass of the loop over filters.items()
ApplyFilter(rows, column, value, exact) ==
    IF column \notin FrameColumns THEN rows
    ELSE LET Keep(r) == CellMatches(r[column], value, exact) IN SelectSeq(rows, Keep)

\* the loop over filters.items(), keys being the columns still to come
RECURSIVE FilterLoop(_, _, _, _)
FilterLoop(rows, flt, keys, exact) ==
    IF keys = {} THEN rows
    ELSE LET column == CHOOSE c \in keys : TRUE
         IN FilterLoop(ApplyFilter(rows, column, flt[column], exact), flt,
                       keys \ {column}, exact)

\* merchants_df.copy(), each row with its index label
Labelled(rows) ==
    [k \in DOMAIN rows |->
        [index |-> k - 1, town |-> rows[k].town, country |-> rows[k].country]]

filter_merchants(rows, flt, exact) ==
    FilterLoop(Labelled(rows), flt, DOMAIN flt, exact)

CountryB == <<"F","R">>
FrameRows == {[town |-> t, country |-> c] : t \in {TownA, TownB, NaN},
                                            c \in {CountryA, CountryB}}
Frames == UNION {[1..n -> FrameRows] : n \in 0..MaxFrameRows}
\* the filter dictionaries: a value or no entry for each of three columns
FilterKeys == {"town", "country", "nonexistent"}
FilterValues(column) ==
    IF column = "town" THEN {TownA, <<"l","y">>, <<"a","y","r">>}
    ELSE IF column = "country" THEN {CountryA}
    ELSE {TownA}
FilterSets ==
    UNION {{f \in [keys -> {TownA, <<"l","y">>, <<"a","y","r">>, CountryA}] :
               \A c \in keys : f[c] \in FilterValues(c)} : keys \in SUBSET FilterKeys}

InitFilter ==
    /\ call = "filter_merchants"
    /\ CoreIdle
    /\ reference_address = RefNone
    /\ IdleExcept("data")
    /\ workbook = NoDict
    /\ frame \in Frames
    /\ filters \in FilterSets
    /\ exact_match \in BOOLEAN

\* result = filter_merchants(merchants_df, filters, exact_match)
FilterCall ==
    /\ call = "filter_merchants" /\ pc = "call"
    /\ result' = filter_merchants(frame, filters, exact_match)
    /\ pc' = "done"
    /\ UNCHANGED <<call, dataVars, outsideData>>

NextFilter == FilterCall

SpecFilter == InitFilter /\ [][NextFilter]_vars

(***************************************************************************)
(* WebAutomator.duckduckgo_search                                          *)
(***************************************************************************)
max_retries == 3
MaxFound == 2

\* what one pass of the while loop may meet
AttemptOutcomes ==
    {"new_page raises", "navigate fails", "navigate fails, close raises",
     "results raise", "results"}

\* the links eval_on_selector_all may return
FoundLists == UNION {[1..n -> {"a", "b"}] : n \in 0..MaxFound}

\* retry_count after a pass that met `met` without returning: += 1 where
\* navigate returned False, += 1 in the except clause
Retried_Once(count, met) == count + 1

Retried(count, met) ==
    IF met = "navigate fails, close raises" THEN count + 2 ELSE count + 1

\* results[:num_results]
Limited(found, n) == SubSeq(found, 1, Min({Len(found), n}))

InitRetry ==
    /\ call = "duckduckgo_search"
    /\ CoreIdle
    /\ reference_address = RefNone
    /\ IdleExcept("retry")
    /\ num_results \in 1..MaxFound
    /\ retry_count = 0
    /\ attempts = <<>>

\* one pass of `while retry_count < max_retries` that does not return
SearchRetry ==
    /\ call = "duckduckgo_search" /\ pc = "call"
    /\ retry_count < max_retries
    /\ \E met \in AttemptOutcomes \ {"results"} :
          /\ attempts' = Append(attempts, met)
          /\ retry_count' = Retried(retry_count, met)
    /\ UNCHANGED <<call, pc, result, num_results, outsideRetry>>

\* the pass that returns page, results
SearchReturn ==
    /\ call = "duckduckgo_search" /\ pc = "call"
    /\ retry_count < max_retries
    /\ \E found \in FoundLists :
          result' = [results |-> Limited(found, num_results)]
    /\ attempts' = Append(attempts, "results")
    /\ pc' = "done"
    /\ UNCHANGED <<call, num_results, retry_count, outsideRetry>>

\* the raise after the loop
SearchRaise ==
    /\ call = "duckduckgo_search" /\ pc = "call"
    /\ ~(retry_count < max_retries)
    /\ result' = [raised |-> "Exception"]
    /\ pc' = "done"
    /\ UNCHANGED <<call, retryVars, outsideRetry>>

NextRetry == SearchRetry \/ SearchReturn \/ SearchRaise

SpecRetry == InitRetry /\ [][NextRetry]_vars

(***************************************************************************)
(* MerchantVerifier.search_for_merchant                                    *)
(***************************************************************************)
PoolTarget == 7
TopResults == 15
ManyLinks == 16

\* search_engines, by name, in the order of the list
search_engines == <<"DuckDuckGo_HTML", "Google", "Bing">>

\* a link of a results page: its URL, whether the URL starts with http:// or
\* https://, and which of excluded_domains_common, is_social_media and
\* is_directory_site hold of it
Link(url, kind) ==
    [url |-> url, http |-> kind # "malformed", excluded |-> kind = "excluded",
     social |-> kind = "social", directory |-> kind = "directory"]

\* n links of one kind
Links(kind, n) == [k \in 1..n |-> Link(<<kind, k>>, kind)]

\* the links a results page may hold
LinkLists ==
    { <<>>,
      <<Link(<<"s", 1>>, "social"), Link(<<"x", 1>>, "excluded"),
        Link(<<"m", 1>>, "malformed")>>,
      <<Link(<<"b", 1>>, "business"), Link(<<"s", 1>>, "social"),
        Link(<<"d", 1>>, "directory"), Link(<<"b", 1>>, "business")>>,
      Links("business", ManyLinks),
      Links("business", 3) \o Links("directory", PoolTarget - 1) }

\* what an engine may answer: an exception somewhere in the try, or a page
\* with or without the CAPTCHA keywords and the interstitial keywords, and
\* the links found on the results page
EnginePages ==
    {[raises |-> TRUE, captcha |-> FALSE, interstitial |-> FALSE, links |-> <<>>]}
    \cup {[raises |-> FALSE, captcha |-> c, interstitial |-> i, links |-> l] :
             c \in BOOLEAN, i \in BOOLEAN, l \in LinkLists}

\* the CAPTCHA check of Google and Bing and the interstitial check of Google
Blocked(name, page) ==
    /\ name # "DuckDuckGo_HTML"
    /\ page.captcha \/ (name = "Google" /\ page.interstitial)

\* unique_links: the first link of every URL
Deduplicated(links) ==
    LET First(k) == \A j \in 1..(k - 1) : links[j].url # links[k].url
        RECURSIVE From(_)
        From(k) == IF k > Len(links) THEN <<>>
                   ELSE (IF First(k) THEN <<links[k]>> ELSE <<>>) \o From(k + 1)
    IN From(1)

\* extracted_links as the engine's branch leaves it
Extracted(name, page) ==
    IF name = "DuckDuckGo_HTML" THEN page.links ELSE Deduplicated(page.links)

\* temp_filtered_links
WithoutExcluded(links) ==
    LET Keep(l) == l.http /\ ~l.excluded IN SelectSeq(links, Keep)

\* business_links
Business(links) ==
    LET Keep(l) == ~l.social /\ ~l.directory IN SelectSeq(links, Keep)

\* directory_links_buffer
Directory(links) ==
    LET Keep(l) == ~l.social /\ l.directory IN SelectSeq(links, Keep)

\* final_filtered_links from its two parts
Pooled(business, directory) ==
    IF Len(business) < PoolTarget
    THEN business \o SubSeq(directory, 1, Min({Len(directory), PoolTarget - Len(business)}))
    ELSE business

\* final_filtered_links[:15], the whole list kept
TopOf_All(links) == links

\* final_filtered_links[:15]
TopOf(links) == SubSeq(links, 1, Min({Len(links), TopResults}))

FinalFiltered(links) == Pooled(Business(links), Directory(links))

\* the links one engine contributes: none when it raises, is blocked or has
\* nothing left after filtering
Yield(name, page) ==
    IF page.raises \/ Blocked(name, page) THEN <<>>
    ELSE TopOf(FinalFiltered(WithoutExcluded(Extracted(name, page))))

InitEngines ==
    /\ call = "search_for_merchant"
    /\ CoreIdle
    /\ reference_address = RefNone
    /\ IdleExcept("verifier")
    /\ engine_i = 0 /\ contacted = <<>> /\ success = FALSE /\ search_results = <<>>
    /\ max_websites = 0 /\ websites_checked = 0 /\ site_k = 0 /\ visited = <<>>
    /\ verification_list = <<>>

\* one pass of the loop over search_engines
EngineTry ==
    /\ call = "search_for_merchant" /\ pc = "call"
    /\ engine_i < Len(search_engines) /\ ~success
    /\ \E page \in EnginePages :
          /\ contacted' = Append(contacted, [name |-> search_engines[engine_i + 1],
                                             page |-> page])
          /\ \E links \in {Yield(search_engines[engine_i + 1], page)} :
                IF links # <<>>
                THEN search_results' = links /\ success' = TRUE
                ELSE UNCHANGED <<search_results, success>>
    /\ engine_i' = engine_i + 1
    /\ UNCHANGED <<call, pc, result, max_websites, websites_checked, site_k, visited,
                   verification_list, outsideVerifier>>

\* return success, search_results
EngineReturn ==
    /\ call = "search_for_merchant" /\ pc = "call"
    /\ engine_i = Len(search_engines) \/ success
    /\ result' = [success |-> success, search_results |-> search_results]
    /\ pc' = "done"
    /\ UNCHANGED <<call, verifierVars, outsideVerifier>>

NextEngines == EngineTry \/ EngineReturn

SpecEngines == InitEngines /\ [][NextEngines]_vars

(***************************************************************************)
(* MerchantVerifier.find_and_verify_merchant                               *)
(***************************************************************************)
MaxSites == 3
MaxBudget == 2
VerifiedThreshold == 50
HighConfidence == 70

\* the contact link of a page: none, or a link whose target is or is not a
\* social-media URL and on which check_address_match reports a confidence
NoContact == [linked |-> FALSE, social |-> FALSE, confidence |-> 0]
ContactLink(social, c) == [linked |-> TRUE, social |-> social, confidence |-> c]

\* a search result: its URL, whether is_social_media holds of it, the
\* confidence check_address_match reports for its page, and its contact link
Result(url, social, c, contact) ==
    [url |-> url, social |-> social, confidence |-> c, contact |-> contact]

\* the pages behind the URLs 1, 2, ...; URL 0 is a social-media URL
SitePages ==
    << <<VerifiedThreshold, NoContact>>, <<VerifiedThreshold, ContactLink(FALSE, 60)>>,
       <<VerifiedThreshold, ContactLink(TRUE, 80)>>,
       <<HighConfidence, NoContact>>, <<HighConfidence, ContactLink(FALSE, 60)>>,
       <<HighConfidence, ContactLink(TRUE, 80)>>,
       <<80, NoContact>>, <<80, ContactLink(FALSE, 60)>>, <<80, ContactLink(TRUE, 80)>>,
       <<60, NoContact>> >>
SiteKinds ==
    {Result(0, TRUE, 80, NoContact)}
    \cup {Result(n, FALSE, SitePages[n][1], SitePages[n][2]) : n \in DOMAIN SitePages}

\* search_results once the search and the direct URL guessing are over
SiteLists == UNION {[1..n -> SiteKinds] : n \in 0..MaxSites}

\* what one site may meet once it is its turn
VisitOutcomes == {"goto raises", "page raises", "matched", "contact raises"}

\* current_verification_result
VerificationResult(url, c) ==
    [url |-> url, address_match_confidence |-> c, verified |-> c > VerifiedThreshold,
     is_contact_page |-> FALSE]

\* verification_results[-1].update({...}) for a better contact page
ContactResult(url, c) ==
    [url |-> url, address_match_confidence |-> c,
     verified |-> c > VerifiedThreshold, is_contact_page |-> TRUE]

\* max(verification_results, key=...) taking the last of equal confidences
MaxByConfidence_Last(list) ==
    list[CHOOSE n \in DOMAIN list :
            /\ \A k \in DOMAIN list :
                  list[k].address_match_confidence <= list[n].address_match_confidence
            /\ \A k \in DOMAIN list :
                  k > n => list[k].address_match_confidence
                             < list[n].address_match_confidence]

\* max(verification_results, key=lambda x: x.get("address_match_confidence", 0))
MaxByConfidence(list) ==
    list[CHOOSE n \in DOMAIN list :
            /\ \A k \in DOMAIN list :
                  list[k].address_match_confidence <= list[n].address_match_confidence
            /\ \A k \in DOMAIN list :
                  k < n => list[k].address_match_confidence
                             < list[n].address_match_confidence]

InitVerify ==
    /\ call = "find_and_verify_merchant"
    /\ CoreIdle
    /\ reference_address = RefNone
    /\ IdleExcept("verifier")
    /\ engine_i = 0 /\ contacted = <<>>
    /\ search_results \in SiteLists
    /\ success = (search_results # <<>>)
    /\ max_websites \in 1..MaxBudget
    /\ websites_checked = 0 /\ site_k = 0 /\ visited = <<>>
    /\ verification_list = <<>>

\* an exception outside the loop over the sites: return None
VerifyAbort ==
    /\ call = "find_and_verify_merchant" /\ pc = "call"
    /\ site_k = 0
    /\ result' = NoDict
    /\ pc' = "done"
    /\ UNCHANGED <<call, verifierVars, outsideVerifier>>

\* the page of site matched, and its contact page where it has one and
\* nothing raises on the way
Matched(site, met) ==
    IF site.confidence > HighConfidence \/ ~site.contact.linked
    THEN /\ visited' = Append(visited, [url |-> site.url, contact |-> FALSE,
                                            social |-> site.social])
         /\ verification_list' =
                Append(verification_list, VerificationResult(site.url, site.confidence))
         /\ pc' = IF site.confidence > HighConfidence THEN "return" ELSE "call"
    ELSE /\ visited' = visited \o <<[url |-> site.url, contact |-> FALSE,
                                      social |-> site.social],
                                     [url |-> site.url, contact |-> TRUE,
                                      social |-> site.contact.social]>>
         /\ verification_list' =
                Append(verification_list,
                       IF met = "matched" /\ site.contact.confidence > site.confidence
                       THEN ContactResult(site.url, site.contact.confidence)
                       ELSE VerificationResult(site.url, site.confidence))
         /\ pc' = IF met = "matched" /\ site.contact.confidence > site.confidence
                      /\ site.contact.confidence > HighConfidence
                   THEN "return" ELSE "call"

\* one pass of the loop over search_results
VerifySite ==
    /\ call = "find_and_verify_merchant" /\ pc = "call"
    /\ site_k < Len(search_results)
    /\ site_k' = site_k + 1
    /\ \E site \in {search_results[site_k + 1]} :
          IF site.social
          THEN UNCHANGED <<websites_checked, visited, verification_list, pc>>
          ELSE /\ websites_checked' = websites_checked + 1
               /\ IF websites_checked + 1 > max_websites
                  THEN pc' = "return" /\ UNCHANGED <<visited, verification_list>>
                  ELSE \E met \in VisitOutcomes :
                         IF met = "goto raises" \/ met = "page raises"
                         THEN /\ visited' = Append(visited, [url |-> site.url,
                                                             contact |-> FALSE,
                                                             social |-> site.social])
                              /\ UNCHANGED <<verification_list, pc>>
                         ELSE Matched(site, met)
    /\ UNCHANGED <<call, result, engine_i, contacted, success, search_results,
                   max_websites, outsideVerifier>>

\* the statements after the loop
VerifyReturn ==
    /\ call = "find_and_verify_merchant"
    /\ pc = "return" \/ (pc = "call" /\ site_k = Len(search_results))
    /\ result' = IF verification_list # <<>> THEN MaxByConfidence(verification_list)
                  ELSE NoDict
    /\ pc' = "done"
    /\ UNCHANGED <<call, verifierVars, outsideVerifier>>

NextVerify == VerifyAbort \/ VerifySite \/ VerifyReturn

SpecVerify == InitVerify /\ [][NextVerify]_vars

NextNormalize == NormalizeCall \/ NormalizeAgain
NextCompare == CompareCall
NextBest == BestExtract \/ BestLoop \/ BestReturn
NextExtract == ExtractPostal \/ ExtractStreet \/ ExtractReturn
NextComponents == ComponentsCall

SpecNormalize == InitNormalize /\ [][NextNormalize]_vars
SpecCompare == InitCompare /\ [][NextCompare]_vars
SpecBest == InitBest /\ [][NextBest]_vars
SpecExtract == InitExtract /\ [][NextExtract]_vars
SpecComponents == InitComponents /\ [][NextComponents]_vars

Init == InitNormalize \/ InitCompare \/ InitBest
Next == NormalizeCall \/ NormalizeAgain \/ CompareCall
        \/ BestExtract \/ BestLoop \/ BestReturn
Spec == Init /\ [][Next]_vars

(***************************************************************************)
(* Properties                                                              *)
(***************************************************************************)
CompareDone == call = "compare_addresses" /\ pc = "done"
BestDone == call = "find_best_address_match" /\ pc = "done"

\* the normalized candidate of the compare_addresses call
NormalizedCandidate == normalize_address(candidate_address)

\* overall_score + 20 * [postal] + 15 * [town] + 10 * [street] of the call
RawSum ==
    overall_score(reference_address, NormalizedCandidate)
    + (IF has_postal_match(reference_address, NormalizedCandidate) THEN 20 ELSE 0)
    + (IF has_town_match(reference_address, NormalizedCandidate) THEN 15 ELSE 0)
    + (IF has_street_match(reference_address, NormalizedCandidate) THEN 10 ELSE 0)

\* the normalized candidate does not contain the trimmed reference postcode
LacksPostcode ==
    \/ Strip(Get(reference_address, "postcode")) = <<>>
    \/ ~Contains(Lower(NormalizedCandidate),
                 Lower(Strip(Get(reference_address, "postcode"))))

\* what compare_addresses gives the i-th candidate of the text
CandidateScore(i) ==
    compare_addresses(reference_address, potential_addresses[i], TRUE).confidence

MaxCandidateScore == Max({CandidateScore(i) : i \in DOMAIN potential_addresses})

\* the first candidate that reaches the maximum
FirstBest ==
    Min({i \in DOMAIN potential_addresses : CandidateScore(i) = MaxCandidateScore})

\* C1: the confidence compare_addresses returns is an integer from 0 to 100,
\* for every reference, candidate and value of require_postal_match.
C1_Boundedness == CompareDone => result.confidence \in 0..100

\* a call whose sum of score and bonuses exceeds 100 and is clamped
C1_Witness == CompareDone /\ RawSum > 100 /\ result.confidence = 100

\* C2: with require_postal_match and a non-empty reference postcode that the
\* (normalized) candidate does not contain, the confidence is at most 60.
C2_PostalDominance ==
    (/\ CompareDone
     /\ require_postal_match
     /\ Get(reference_address, "postcode") # <<>>
     /\ LacksPostcode) => result.confidence <= 60

\* town and street bonuses lift the sum above 60 and the cap brings it to 60
C2_Witness ==
    /\ CompareDone /\ require_postal_match
    /\ Get(reference_address, "postcode") # <<>>
    /\ candidate_address # <<>>
    /\ LacksPostcode
    /\ RawSum > 60
    /\ result.confidence = 60

\* C3: the score find_best_address_match returns is the maximum of the
\* confidences compare_addresses gives the candidates extracted from the text.
C3_SelectorMaximum ==
    (BestDone /\ potential_addresses # <<>>) => result.confidence = MaxCandidateScore

\* the maximum is reached by a candidate that is not the last one
C3_Witness ==
    /\ BestDone /\ Len(potential_addresses) >= 2
    /\ CandidateScore(Len(potential_addresses)) < MaxCandidateScore
    /\ result.confidence = MaxCandidateScore

\* C4: when the best candidate score is strictly less than min_confidence the
\* result is (best score, None), the score being the true best score.
C4_ThresholdGate ==
    (BestDone /\ potential_addresses # <<>> /\ MaxCandidateScore < min_confidence)
        => result = [confidence |-> MaxCandidateScore, matched_text |-> NoneValue]

\* a positive best score below the threshold
C4_Witness ==
    /\ BestDone /\ potential_addresses # <<>>
    /\ 0 < MaxCandidateScore /\ MaxCandidateScore < min_confidence
    /\ result.confidence = MaxCandidateScore
    /\ result.matched_text = NoneValue

\* C5 as stated: in every result of compare_addresses or of
\* find_best_address_match, confidence == 0 implies matched_text is None.
C5_Original ==
    (pc = "done" /\ call \in {"compare_addresses", "find_best_address_match"}
     /\ result.confidence = 0) => result.matched_text = NoneValue

\* C5: in every result of find_best_address_match confidence == 0 implies
\* matched_text is None; compare_addresses returns None as the matched text
\* exactly when the candidate is empty, whatever the confidence.
C5_ZeroMeansNone ==
    /\ (BestDone /\ result.confidence = 0) => result.matched_text = NoneValue
    /\ CompareDone => (result.matched_text = NoneValue <=> candidate_address = <<>>)

\* find_best_address_match had candidates, all scored 0
C5_Witness ==
    /\ BestDone /\ potential_addresses # <<>>
    /\ MaxCandidateScore = 0
    /\ result = [confidence |-> 0, matched_text |-> NoneValue]

\* the normalized string holds an abbreviation followed by a space
HasAbbreviation(s) ==
    \E k \in { <<"s","t"," ">>, <<"r","d"," ">>, <<"a","v","e"," ">>,
               <<"d","r"," ">>, <<"l","n"," ">>, <<"b","l","v","d"," ">> } :
        Contains(s, k)

\* C6 as stated: normalize_address(normalize_address(s)) == normalize_address(s)
\* for every string s.
C6_Original == passes = 2 => result = address

\* C6: normalize_address(normalize_address(s)) == normalize_address(s) exactly
\* when normalize_address(s) holds none of "st ", "rd ", "ave ", "dr ", "ln ",
\* "blvd "; an abbreviation that the first pass left before a space (it stood
\* before punctuation) is expanded by the second pass.
C6_IdempotentUnlessAbbreviation ==
    passes = 2 => (result = address <=> ~HasAbbreviation(address))

\* a first pass that left an abbreviation, which the second pass expands
C6_Witness == passes = 2 /\ HasAbbreviation(address) /\ result # address

\* C7: compare_addresses with an empty candidate returns (0, None) for every
\* reference, also one with missing or empty fields.
C7_EmptyCandidateFloor ==
    (CompareDone /\ candidate_address = <<>>)
        => result = [confidence |-> 0, matched_text |-> NoneValue]

\* the empty candidate against a reference with all its fields
C7_Witness ==
    /\ CompareDone /\ candidate_address = <<>>
    /\ reference_address = RefA
    /\ result = [confidence |-> 0, matched_text |-> NoneValue]

\* the result carries the best score and a candidate that reached it
ReturnsBestCandidate ==
    /\ result.confidence = MaxCandidateScore
    /\ result.matched_text # NoneValue
    /\ \E i \in DOMAIN potential_addresses :
          /\ potential_addresses[i] = result.matched_text
          /\ CandidateScore(i) = MaxCandidateScore

\* C8 as stated: with at least one candidate and a best score not below
\* min_confidence, the result is (best score, the candidate that reached it),
\* for every min_confidence.
C8_Original ==
    (BestDone /\ potential_addresses # <<>> /\ MaxCandidateScore >= min_confidence)
        => ReturnsBestCandidate

\* C8: with at least one candidate, a best score not below min_confidence and
\* greater than 0, the result is (best score, the candidate that reached it).
C8_ReturnsBestAboveZero ==
    (/\ BestDone /\ potential_addresses # <<>>
     /\ MaxCandidateScore >= min_confidence
     /\ MaxCandidateScore > 0) => ReturnsBestCandidate

\* a positive best score returned with its text under min_confidence <= 0
C8_Witness ==
    /\ BestDone /\ potential_addresses # <<>>
    /\ min_confidence <= 0 /\ MaxCandidateScore > 0
    /\ ReturnsBestCandidate

\* C9: of several candidates with the maximum score, the first in the
\* candidate list is the one returned.
C9_FirstSeenWins ==
    (BestDone /\ potential_addresses # <<>> /\ result.matched_text # NoneValue)
        => result.matched_text = potential_addresses[FirstBest]

\* two different candidates reach the maximum and the earlier is returned
C9_Witness ==
    /\ BestDone /\ potential_addresses # <<>>
    /\ \E j \in DOMAIN potential_addresses :
          /\ j > FirstBest
          /\ CandidateScore(j) = MaxCandidateScore
          /\ potential_addresses[j] # potential_addresses[FirstBest]
    /\ result.matched_text = potential_addresses[FirstBest]

\* C10: for a non-empty candidate the confidence is min(sum, 100), then
\* min(., 60) if require_postal_match and there is no postal match; the sum is
\* overall_score + 20 * [postal] + 15 * [town] + 10 * [street].
C10_ScoringFormula ==
    (CompareDone /\ candidate_address # <<>>) =>
        result.confidence =
            IF require_postal_match
               /\ ~has_postal_match(reference_address, NormalizedCandidate)
            THEN Min({RawSum, 100, 60})
            ELSE Min({RawSum, 100})

\* the cap applies to a sum that only the bonuses carry above 60
C10_Witness ==
    /\ CompareDone /\ candidate_address # <<>>
    /\ require_postal_match
    /\ ~has_postal_match(reference_address, NormalizedCandidate)
    /\ overall_score(reference_address, NormalizedCandidate) <= 60
    /\ RawSum > 60
    /\ result.confidence = 60

\* every field of the reference is empty or absent
AllFieldsEmpty == \A k \in RefKeys : Get(reference_address, k) = <<>>

\* C11: for a reference whose four fields are all empty or absent and a
\* non-empty candidate, no bonus is triggered and the confidence is
\* min(overall_score, 60) with require_postal_match, overall_score without.
C11_MissingFields ==
    (CompareDone /\ AllFieldsEmpty /\ candidate_address # <<>>) =>
        /\ ~has_postal_match(reference_address, NormalizedCandidate)
        /\ ~has_town_match(reference_address, NormalizedCandidate)
        /\ ~has_street_match(reference_address, NormalizedCandidate)
        /\ result.confidence =
              IF require_postal_match
              THEN Min({token_sort_ratio(<<>>, NormalizedCandidate), 60})
              ELSE token_sort_ratio(<<>>, NormalizedCandidate)

\* a reference with no key at all, whose overall score the cap brings to 60
C11_Witness ==
    /\ CompareDone /\ reference_address = RefNone /\ candidate_address # <<>>
    /\ require_postal_match
    /\ token_sort_ratio(<<>>, NormalizedCandidate) > 60
    /\ result.confidence = 60


(***************************************************************************)
(* Properties of extract_addresses_from_text                               *)
(***************************************************************************)
ExtractDone == call = "extract_addresses_from_text" /\ pc = "done"

\* the i-th smallest member of a set of indices
NthOf(keep, i) == CHOOSE x \in keep : Cardinality({y \in keep : y < x}) = i - 1

\* cleaned[max(0, s - before) : min(len(cleaned), s + after)]
WindowAt(s, before, after) ==
    Slice(cleaned, Max({0, s - before}), Min({Len(cleaned), s + after}))

\* the street windows of the anchors starts[k], k in keep, in increasing k
Survivors(starts, keep) ==
    [i \in 1..Cardinality(keep) |-> WindowAt(starts[NthOf(keep, i)], 50, 100)]

Increasing(starts) == \A i, j \in DOMAIN starts : i < j => starts[i] < starts[j]

\* the returned list is: the postal windows, then windows of the kept anchors
\* of the first street pattern, then those of the second
OrderedAs(postal, street1, street2) ==
    /\ Increasing(postal) /\ Increasing(street1) /\ Increasing(street2)
    /\ \E keep1 \in SUBSET DOMAIN street1, keep2 \in SUBSET DOMAIN street2 :
          result = [k \in DOMAIN postal |-> WindowAt(postal[k], 100, 100)]
                   \o Survivors(street1, keep1) \o Survivors(street2, keep2)

\* C12: the list returned by extract_addresses_from_text holds first every
\* postal-anchored window in increasing order of anchor position in the cleaned
\* text, then the surviving windows of the first street pattern in document
\* order, then the surviving windows of the second pattern in document order.
C12_CandidateOrder ==
    ExtractDone =>
        OrderedAs(FindIter("postal", cleaned, 0), FindIter("street1", cleaned, 0),
                  FindIter("street2", cleaned, 0))

\* a postal window, then a first-pattern window, then a second-pattern window,
\* the street anchors lying in document order opposite to the list order
C12_Witness ==
    /\ ExtractDone
    /\ Len(result) >= 3
    /\ FindIter("postal", cleaned, 0) # <<>>
    /\ \E p1 \in Range(FindIter("street1", cleaned, 0)),
          p2 \in Range(FindIter("street2", cleaned, 0)) :
          /\ p2 < p1
          /\ \E i, j \in DOMAIN result :
                /\ i < j
                /\ result[i] = WindowAt(p1, 50, 100)
                /\ result[j] = WindowAt(p2, 50, 100)
                /\ result[i] # result[j]

\* the fragment is the window of width before/after around the anchor s
IsWindowOf(fragment, s, before, after) ==
    /\ fragment = WindowAt(s, before, after)
    /\ Max({0, s - before}) <= s /\ s < Min({Len(cleaned), s + after})
    /\ Len(fragment) > s - Max({0, s - before})

\* the first fragments are the postal windows; every later one is the window
\* of a street anchor
WindowsOf(postal, streets) ==
    /\ Len(result) >= Len(postal)
    /\ \A n \in DOMAIN result :
          /\ Contains(cleaned, result[n])
          /\ Len(result[n]) <= 200
          /\ IF n <= Len(postal)
             THEN IsWindowOf(result[n], postal[n], 100, 100)
             ELSE \E s \in Range(streets) : IsWindowOf(result[n], s, 50, 100)

\* C13: every fragment returned by extract_addresses_from_text is a contiguous
\* substring of the cleaned text; a postal-anchored fragment is exactly
\* text[max(0, s-100) : min(len, s+100)] and a street-anchored fragment exactly
\* text[max(0, s-50) : min(len, s+100)] for its anchor start s, so no fragment
\* is longer than 200 characters and every fragment contains its anchor's start.
C13_CandidateWindows ==
    ExtractDone =>
        WindowsOf(FindIter("postal", cleaned, 0),
                  FindIter("street1", cleaned, 0) \o FindIter("street2", cleaned, 0))

\* a postal and a street fragment that neither end of the text clips
C13_Witness ==
    /\ ExtractDone
    /\ \E s \in Range(FindIter("postal", cleaned, 0)) :
          /\ s > 100 /\ s + 100 < Len(cleaned)
          /\ \E n \in DOMAIN result : result[n] = WindowAt(s, 100, 100)
                                       /\ Len(result[n]) = 200
    /\ \E s \in Range(FindIter("street1", cleaned, 0)) :
          /\ s > 50 /\ s + 100 < Len(cleaned)
          /\ \E n \in DOMAIN result : result[n] = WindowAt(s, 50, 100)
                                       /\ Len(result[n]) = 150

\* a step of the loops over the street matches
StreetStep == call = "extract_addresses_from_text" /\ pc = "street" /\ idx' = idx + 1

\* the step appends w exactly when no fragment already listed is a near
\* duplicate of it, and otherwise leaves the list alone
FilteredAppend(w) ==
    /\ (potential_addresses' = Append(potential_addresses, w))
          <=> (\A n \in DOMAIN potential_addresses :
                  ratio(w, potential_addresses[n]) <= 80)
    /\ potential_addresses' \in {potential_addresses, Append(potential_addresses, w)}

\* in the returned list no fragment after the first `postal` ones is a near
\* duplicate of a fragment before it
NoLaterDuplicate(postal) ==
    \A j \in DOMAIN result' : \A i \in 1..(j - 1) :
        j > postal => ratio(result'[j], result'[i]) <= 80

\* C14: a street-pattern window is appended to the candidate list if and only
\* if its similarity ratio to every fragment already in the list is at most
\* 80; hence in the returned list no street-anchored fragment has ratio > 80
\* with any fragment that precedes it.
C14_NearDuplicateFilter ==
    [][/\ StreetStep => FilteredAppend(WindowAt(pending[idx + 1], 50, 100))
       /\ (call = "extract_addresses_from_text" /\ pc = "street" /\ pc' = "done")
             => NoLaterDuplicate(Len(FindIter("postal", cleaned, 0)))]_vars

\* one street window was kept and another dropped
C14_Witness ==
    /\ ExtractDone
    /\ Len(result) > Len(FindIter("postal", cleaned, 0))
    /\ Len(result) < Len(FindIter("postal", cleaned, 0)) + Len(pending)

(***************************************************************************)
(* Properties of extract_address_components                                *)
(***************************************************************************)
ComponentsDone == call = "extract_address_components" /\ pc = "done"

\* address[w:e] is a run of digits, optionally continued by hyphens and word
\* characters, that whitespace follows
NumberToken(w, e) ==
    /\ w < e /\ At(address, w, Digits)
    /\ \A k \in w..(e - 1) : At(address, k, WordChars \cup {"-"})
    /\ At(address, e, Spaces)

\* the first character that is not whitespace is a digit
DigitAfterSpaces ==
    \E w \in 0..Len(address) : /\ \A k \in 0..(w - 1) : At(address, k, Spaces)
                               /\ At(address, w, Digits)

\* C15 as stated: for every input that does not start with a digit,
\* building_number is None.
C15_Original ==
    (ComponentsDone /\ ~At(address, 0, Digits)) => result.building_number = NoneValue

\* C15: extract_address_components sets building_number only when the input
\* begins, after optional leading whitespace, with a run of digits (optionally
\* continued by hyphen/word characters) that is followed by whitespace, and
\* then to that token; for every input whose first non-whitespace character is
\* not a digit, building_number is None.
C15_BuildingNumber ==
    ComponentsDone =>
        /\ result.building_number # NoneValue =>
              \E w \in 0..Len(address), e \in 0..Len(address) :
                  /\ \A k \in 0..(w - 1) : At(address, k, Spaces)
                  /\ NumberToken(w, e)
                  /\ result.building_number = Slice(address, w, e)
        /\ ~DigitAfterSpaces => result.building_number = NoneValue

\* a building number found behind leading whitespace
C15_Witness ==
    /\ ComponentsDone
    /\ At(address, 0, Spaces)
    /\ result.building_number = <<"2", "b">>

(***************************************************************************)
(* Properties of concurrent calls                                          *)
(***************************************************************************)
RECURSIVE BestOver(_, _, _)
\* the loop of find_best_address_match over the candidates from k on
BestOver(cands, k, best) ==
    IF k > Len(cands) THEN best
    ELSE BestOver(cands, k + 1,
             IF compare_addresses(reference_address, cands[k], TRUE).confidence
                    > best.confidence
             THEN compare_addresses(reference_address, cands[k], TRUE)
             ELSE best)

\* the best candidate, its text withheld below the default threshold of 50
Gated(best) ==
    IF best.confidence < 50 THEN [confidence |-> best.confidence, matched_text |-> NoneValue]
    ELSE best

\* what the call returns when it runs with no other call in progress
RunAlone(c, arg) ==
    CASE c = "normalize_address" -> normalize_address(arg)
      [] c = "extract_address_components" -> extract_address_components(arg)
      [] c = "compare_addresses" -> compare_addresses(reference_address, arg, TRUE)
      [] c = "extract_addresses_from_text" -> extract_addresses_from_text(arg)
      [] c = "find_best_address_match" ->
             Gated(BestOver(extract_addresses_from_text(arg), 1,
                            [confidence |-> 0, matched_text |-> NoneValue]))

\* C16: any interleaving of concurrent calls to normalize_address,
\* extract_address_components, extract_addresses_from_text, compare_addresses
\* and find_best_address_match returns, for each call, the result of running
\* that call alone, and no call modifies the reference-address mapping or the
\* text it was given.
C16_NoSharedState ==
    [][/\ reference_address' = reference_address
       /\ \A t \in Threads :
             /\ task'[t].arg = task[t].arg
             /\ task'[t].pc = "done" =>
                   task'[t].result = RunAlone(task'[t].call, task'[t].arg)]_vars

\* two calls in the middle of their loops at once, the second having started
\* after the first and the first returning its own result
C16_Witness ==
    /\ call = "threads"
    /\ task[1].call = "find_best_address_match" /\ task[1].pc = "loop"
    /\ task[2].call = "extract_addresses_from_text" /\ task[2].pc = "street"
    /\ locals[1].idx = 1 /\ locals[2].idx = 1
    /\ locals[1].best_score > 0
    /\ locals[1].potential_addresses # locals[2].potential_addresses

(***************************************************************************)
(* Properties of batch_check_urls                                          *)
(***************************************************************************)
BatchDone == call = "batch_check_urls" /\ pc = "done"

\* the checks that met an exception
Failed == {u \in DOMAIN outcome :
             "raised" \in DOMAIN outcome[u] \/ outcome[u].error # NoneValue}

\* C17: batch_check_urls runs the checks on at most max_concurrent workers
\* and, for every completion order, returns exactly one record per distinct
\* input URL; a check that fails (request error or any other exception)
\* yields a record for its URL with accessible = False and an error value,
\* and the records of the other URLs are returned all the same.
C17_BatchRecords ==
    /\ call = "batch_check_urls" => Cardinality(running) <= max_concurrent
    /\ BatchDone =>
          /\ Len(result) = Cardinality(Range(urls))
          /\ \A u \in Range(urls) :
                \E n \in DOMAIN result :
                    /\ result[n].url = u
                    /\ \A k \in DOMAIN result : result[k].url = u => k = n
                    /\ u \in Failed => /\ result[n].accessible = FALSE
                                       /\ result[n].error # NoneValue

\* two checks ran at once and finished out of submission order, one raised an
\* exception that is no request error, and another URL's record says accessible
C17_Witness ==
    /\ BatchDone
    /\ Len(urls) > Len(result)
    /\ Len(result) = 2
    /\ "raised" \in DOMAIN outcome[result[1].url]
    /\ result[2].accessible

(***************************************************************************)
(* Properties of process_merchant_verification                             *)
(***************************************************************************)
ProcessDone == call = "process_merchant_verification" /\ pc = "done"

\* the call returned its dictionary
Returned == ProcessDone /\ "raised" \notin DOMAIN result

\* C18: in process_merchant_verification a failure while handling one
\* merchant (the search raising after its retries, a navigation failure, an
\* exception while processing one site) never aborts the batch: that merchant
\* still gets a record appended to results, the failing site is skipped, and
\* every later merchant is still processed.
C18_FailOpenBatch ==
    call = "process_merchant_verification" =>
        /\ (pc = "merchant" \/ Returned) =>
              /\ Len(verification_results.results) = index
              /\ verification_results.processed_merchants = index
              /\ \A k \in 1..index :
                    /\ verification_results.results[k].merchant_id = merchants_df[k]
                    /\ verification_results.results[k].websites_checked
                          = Len(verification_results.results[k].all_results)
        /\ (ProcessDone /\ merchants_df # <<>>) =>
              /\ result = verification_results
              /\ Len(result.results) = Len(merchants_df)

\* the first merchant's search raised and the second merchant was processed
\* all the same, one of its five sites failing
C18_Witness ==
    /\ Returned
    /\ Len(result.results) = 2
    /\ ~result.results[1].search_successful
    /\ result.results[1].all_results = <<>>
    /\ result.results[2].search_successful
    /\ result.results[2].websites_checked = 4
    /\ \A n \in 1..4 : result.results[2].all_results[n].confidence <= StopConfidence

(***************************************************************************)
(* Properties of the page scorers                                          *)
(***************************************************************************)
ScanDone == call \in {"find_address_on_page", "check_address_match"} /\ pc = "done"

\* the confidence the call returned
Reported ==
    IF call = "find_address_on_page" THEN result.address_confidence
    ELSE result.confidence

\* C19: find_address_on_page and check_address_match return a confidence that
\* is an integer in [0,100] for every combination of component matches, even
\* when the awarded weights add up to more than 100, and find_address_on_page
\* reports address_found exactly when that confidence is greater than 30.
C19_ScoringProfile ==
    ScanDone =>
        /\ Reported \in 0..100
        /\ call = "find_address_on_page" => (result.address_found <=> Reported > 30)

\* a page whose weights add up to more than 100, reported as 100 and found
C19_Witness ==
    /\ ScanDone /\ call = "find_address_on_page"
    /\ PageConfidence(Lower(page_text), Lower(merchant_data.merchant_name),
                      Lower(merchant_data.address_line1), Lower(merchant_data.town),
                      Lower(merchant_data.postcode), Lower(merchant_data.country)) > 100
    /\ result.address_confidence = 100
    /\ result.address_found

(***************************************************************************)
(* Properties of _clean_merchant_data                                      *)
(***************************************************************************)
CleanDone == call = "_clean_merchant_data" /\ pc = "done"

\* the merchant_id of an input row as the cleaning reads it: converted to a
\* string and stripped of surrounding whitespace
IdOf(row) == str_strip(astype_str(row.merchant_id, FALSE))

\* the first row of the input with merchant_id v, as an index label
FirstWith(v) == Min({k \in DOMAIN df : IdOf(df[k]) = v}) - 1

\* the returned table has unique, non-empty ids, each on its first input row
UniqueFirstRows ==
    CleanDone =>
        /\ \A i, j \in DOMAIN result :
               result[i].merchant_id = result[j].merchant_id => i = j
        /\ \A i \in DOMAIN result :
               /\ ~isna(result[i].merchant_id)
               /\ result[i].merchant_id \notin {<<>>, <<"n","a","n">>, <<"N","o","n","e">>}
               /\ result[i].index = FirstWith(result[i].merchant_id)

\* the call leaves the table it was given as it was
InputKept == call = "_clean_merchant_data" => df' = df

\* C20: the table _clean_merchant_data returns has no two rows with the same
\* merchant_id and no row whose merchant_id is empty, 'nan' or 'None'; for
\* each merchant_id that remains the row kept is the first row of the input
\* whose id, converted to a string and stripped of surrounding whitespace, is
\* that id; the input table itself is not modified.
C20_UniqueIds == []UniqueFirstRows /\ [][InputKept]_vars

\* the rows of the input whose merchant_id cell is v as it stands
RowsWith(v) == {k \in DOMAIN df : df[k].merchant_id = v}

\* the returned table has unique, non-empty ids, each on the first input row
\* whose cell holds that very id
UniqueFirstRows_Literal ==
    CleanDone =>
        /\ \A i, j \in DOMAIN result :
               result[i].merchant_id = result[j].merchant_id => i = j
        /\ \A i \in DOMAIN result :
               /\ ~isna(result[i].merchant_id)
               /\ result[i].merchant_id \notin {<<>>, <<"n","a","n">>, <<"N","o","n","e">>}
               /\ result[i].index + 1 \in RowsWith(result[i].merchant_id)
               /\ \A k \in RowsWith(result[i].merchant_id) : result[i].index + 1 <= k

\* C20 as first stated: the row kept for a merchant_id is the first row of
\* the input with that id, the input's ids taken as they stand.
C20_Original == []UniqueFirstRows_Literal /\ [][InputKept]_vars

\* a table of three rows whose first and last share an id once standardized,
\* with an empty id between them, cleaned to the first row alone
C20_Witness ==
    /\ CleanDone
    /\ Len(df) = 3
    /\ df[1].merchant_id = <<" ">> \o IdA
    /\ df[2].merchant_id = NoneValue
    /\ df[3].merchant_id = IdA
    /\ Len(result) = 1
    /\ result[1].index = 0
    /\ result[1].merchant_id = IdA

(***************************************************************************)
(* Properties of the page scorers: empty merchant fields                   *)
(***************************************************************************)
\* the merchant's address_line1, town, postcode and country are all empty
NoAddressFields ==
    /\ merchant_data.address_line1 = <<>> /\ merchant_data.town = <<>>
    /\ merchant_data.postcode = <<>> /\ merchant_data.country = <<>>

\* what find_address_on_page awards for the merchant's name, which is no
\* address component; check_address_match does not look for the name
NameWeight ==
    IF call = "find_address_on_page"
       /\ FoundOn(Lower(page_text), Lower(merchant_data.merchant_name))
    THEN 20 ELSE 0

\* C29: in both page scorers an empty address_line1, town, postcode or country
\* leaves the corresponding match flag false and adds no weight, so a merchant
\* with all four fields empty gets confidence 0 on any page (the points for
\* the merchant's name set aside).
C29_EmptyEarnsNothing ==
    ScanDone =>
        /\ call = "check_address_match" =>
              /\ merchant_data.address_line1 = <<>> =>
                    ~result.has_address /\ ~result.address_partial_match
                    /\ ~result.nearby_address_match
              /\ merchant_data.town = <<>> => ~result.has_town
              /\ merchant_data.postcode = <<>> => ~result.has_postcode
              /\ merchant_data.country = <<>> => ~result.has_country
        /\ NoAddressFields => Reported \in {0, NameWeight}

(***************************************************************************)
(* Properties of process_merchant_verification: sites and counters         *)
(***************************************************************************)
InProcess == call = "process_merchant_verification"

\* the confidences of a record's all_results
Confidences(m) == {m.all_results[n].confidence : n \in DOMAIN m.all_results}

\* best_match is the earliest entry of all_results with the highest confidence
EarliestBest(m) ==
    \E n \in DOMAIN m.all_results :
        /\ m.all_results[n] = m.best_match
        /\ \A k \in DOMAIN m.all_results :
              /\ m.all_results[k].confidence <= m.all_results[n].confidence
              /\ k < n => m.all_results[k].confidence < m.all_results[n].confidence

\* what C27 says of one merchant's record
BestSite(m) ==
    /\ Len(m.all_results) <= max_sites_to_check
    /\ m.best_match = NoDict <=> \A c \in Confidences(m) : c <= 0
    /\ m.best_match # NoDict => EarliestBest(m)

\* the records appended so far
RecordsKept ==
    (InProcess /\ verification_results # NoDict) =>
        \A k \in DOMAIN verification_results.results :
            BestSite(verification_results.results[k])

\* the loop over the sites stays within its budget
WithinBudget == InProcess => site_i <= max_sites_to_check

\* a site is visited only while no site before it scored above 80
VisitsStop ==
    (InProcess /\ site_i' = site_i + 1) =>
        \A c \in Confidences(merchant_result) : c <= StopConfidence

\* C27: in process_merchant_verification at most 5 filtered sites are visited
\* for a merchant and none after a site with confidence > 80; best_match is
\* the earliest entry of all_results whose confidence is the maximum, and it
\* is None exactly when all_results has no entry with confidence > 0.
C27_BestSite == []RecordsKept /\ []WithinBudget /\ [][VisitsStop]_vars

\* a merchant with five sites visited, two of them sharing the highest
\* confidence, the earlier one kept; and a merchant whose first site scored
\* above 80, the second site left unvisited
C27_Witness ==
    /\ Returned
    /\ Len(result.results) = 2
    /\ Len(result.results[1].all_results) = 5
    /\ result.results[1].all_results[2].confidence = 50
    /\ result.results[1].all_results[4].confidence = 50
    /\ result.results[1].best_match.url = "b"
    /\ Len(result.results[2].all_results) = 1
    /\ result.results[2].all_results[1].confidence = 90
    /\ Len(filtered_results) = 2

\* the loop over the merchants is between two iterations, or has ended
BetweenMerchants == InProcess /\ (pc = "merchant" \/ Returned)

\* C28: after each merchant iteration of process_merchant_verification
\* processed_merchants equals the number of records in results,
\* successful_verifications <= processed_merchants, each record's
\* websites_checked equals the length of its all_results and is at most 5, and
\* when the function returns processed_merchants = total_merchants.
C28_Counters ==
    /\ BetweenMerchants =>
          /\ verification_results.processed_merchants
                = Len(verification_results.results)
          /\ verification_results.successful_verifications
                <= verification_results.processed_merchants
          /\ \A k \in DOMAIN verification_results.results :
                /\ verification_results.results[k].websites_checked
                      = Len(verification_results.results[k].all_results)
                /\ verification_results.results[k].websites_checked
                      <= max_sites_to_check
    /\ Returned => result.processed_merchants = result.total_merchants

\* two merchants returned, one of them verified, one with five sites checked
C28_Witness ==
    /\ Returned
    /\ result.total_merchants = 2
    /\ result.processed_merchants = 2
    /\ result.successful_verifications = 1
    /\ \E k \in 1..2 : result.results[k].websites_checked = max_sites_to_check

\* C30: when the merchant table holds zero merchants,
\* process_merchant_verification completes normally and returns
\* total_merchants = 0, processed_merchants = 0, successful_verifications = 0
\* and an empty results list; computing the summary raises no error.
C30_EmptyBatch ==
    (ProcessDone /\ merchants_df = <<>>) =>
        /\ Returned
        /\ result.total_merchants = 0
        /\ result.processed_merchants = 0
        /\ result.successful_verifications = 0
        /\ result.results = <<>>

(***************************************************************************)
(* Properties of extract_merchant_data                                     *)
(***************************************************************************)
LoadDone == call = "extract_merchant_data" /\ pc = "done"

\* every row of the sheet has a merchant id the cleaning counts as empty
AllIdsEmpty ==
    \A k \in DOMAIN workbook.rows :
        empty_condition([merchant_id |-> IdOf(workbook.rows[k])])

\* C21: extract_merchant_data raises FileNotFoundError for a path that does
\* not exist and ValueError for a workbook with fewer than 19 columns, and
\* returns an empty table without raising for a workbook with a header row
\* but no data rows, or whose rows all have empty merchant ids.
C21_TypedErrors ==
    LoadDone =>
        /\ ~workbook.exists => result = [raised |-> "FileNotFoundError"]
        /\ (workbook.exists /\ workbook.readable
               /\ workbook.columns < MerchantNameColumn + 1)
              => result = [raised |-> "ValueError"]
        /\ (workbook.exists /\ workbook.readable
               /\ workbook.columns >= MerchantNameColumn + 1 /\ AllIdsEmpty)
              => result = [table |-> <<>>]

\* a workbook of 19 columns whose three rows all have empty merchant ids,
\* returned as the empty table
C21_Witness ==
    /\ LoadDone
    /\ workbook.exists /\ workbook.readable
    /\ workbook.columns = MerchantNameColumn + 1
    /\ Len(workbook.rows) = 3
    /\ AllIdsEmpty
    /\ result = [table |-> <<>>]

(***************************************************************************)
(* Properties of filter_merchants                                          *)
(***************************************************************************)
FilterDone == call = "filter_merchants" /\ pc = "done"

\* row k of the input satisfies the filter on column c
Satisfies(k, c) ==
    IF exact_match THEN frame[k][c] = filters[c]
    ELSE frame[k][c] \notin {NaN, NoneValue}
         /\ Contains(Lower(frame[k][c]), Lower(filters[c]))

\* row k of the input satisfies every filter whose column exists
Wanted(k) == \A c \in DOMAIN filters \cap FrameColumns : Satisfies(k, c)

\* the returned rows are the wanted rows of the input, in the input's order
ExactlyWanted ==
    FilterDone =>
        /\ {result[n].index + 1 : n \in DOMAIN result} = {k \in DOMAIN frame : Wanted(k)}
        /\ \A n \in DOMAIN result :
              /\ result[n].town = frame[result[n].index + 1].town
              /\ result[n].country = frame[result[n].index + 1].country
              /\ \A m \in DOMAIN result : m < n => result[m].index < result[n].index
        /\ DOMAIN filters \cap FrameColumns = {} => Len(result) = Len(frame)

\* the call leaves the table it was given as it was
FrameKept == call = "filter_merchants" => frame' = frame

\* C22: filter_merchants returns exactly the rows of the input that satisfy
\* every filter whose column exists in the table; a filter naming a column
\* that does not exist is ignored, so a filter set of unknown columns only
\* returns all rows; the input table is left unchanged.
C22_ConjunctiveFilters == []ExactlyWanted /\ [][FrameKept]_vars

\* three rows filtered on town, country and an unknown column, one row left
C22_Witness ==
    /\ FilterDone
    /\ DOMAIN filters = FilterKeys
    /\ Len(frame) = 3
    /\ Len(result) = 1
    /\ result[1].index = 1
    /\ \E k \in DOMAIN frame : frame[k].town = TownA /\ frame[k].country = CountryB

(***************************************************************************)
(* Properties of duckduckgo_search                                         *)
(***************************************************************************)
RetryDone == call = "duckduckgo_search" /\ pc = "done"

\* C23: duckduckgo_search makes at most 3 search attempts, returns the page
\* and results of the first attempt that succeeds, and if no attempt succeeds
\* raises an exception after the third failed attempt; it never retries a
\* fourth time.
C23_BoundedRetry ==
    call = "duckduckgo_search" =>
        /\ Len(attempts) <= max_retries
        /\ \A n \in DOMAIN attempts : attempts[n] = "results" => n = Len(attempts)
        /\ RetryDone =>
              IF attempts # <<>> /\ attempts[Len(attempts)] = "results"
              THEN "results" \in DOMAIN result
              ELSE result = [raised |-> "Exception"] /\ Len(attempts) = max_retries

(***************************************************************************)
(* Properties of search_for_merchant                                       *)
(***************************************************************************)
InEngines == call = "search_for_merchant"
EnginesDone == InEngines /\ pc = "done"

\* no link of the page survives the filters
NothingUsable(page) ==
    \A k \in DOMAIN page.links :
        ~page.links[k].http \/ page.links[k].excluded \/ page.links[k].social

\* the n-th engine contacted raised, was found blocked by the checks made for
\* it, or had no link left after filtering
Unusable(n) ==
    \/ contacted[n].page.raises
    \/ contacted[n].name \in {"Google", "Bing"} /\ contacted[n].page.captcha
    \/ contacted[n].name = "Google" /\ contacted[n].page.interstitial
    \/ NothingUsable(contacted[n].page)

\* the n-th engine contacted raised, showed a CAPTCHA or an interstitial, or
\* had no link left after filtering
Unusable_AnyEngine(n) ==
    \/ contacted[n].page.raises
    \/ contacted[n].page.captcha
    \/ contacted[n].page.interstitial
    \/ NothingUsable(contacted[n].page)

\* engines are contacted in the order of the list, and only after every
\* engine before them was skipped
InOrder == \A n \in DOMAIN contacted : contacted[n].name = search_engines[n]

\* the value returned
ReturnedLinks ==
    EnginesDone =>
        /\ result.success <=> result.search_results # <<>>
        /\ Len(result.search_results) <= TopResults
        /\ \A k \in DOMAIN result.search_results : ~result.search_results[k].social
        /\ ~result.success => Len(contacted) = Len(search_engines)

\* C26: search_for_merchant tries DuckDuckGo_HTML, Google, Bing in that order;
\* an engine that raises, shows a CAPTCHA (checked for Google and Bing) or an
\* interstitial (checked for Google), or yields no link after filtering is
\* skipped and the next one is tried; the first engine that yields a filtered
\* link ends the loop; success is True exactly when the returned list is
\* non-empty, and the list has at most 15 entries, none a social-media URL.
C26_EngineFallback ==
    InEngines =>
        /\ InOrder
        /\ \A n \in DOMAIN contacted :
              IF Unusable(n) THEN n < Len(contacted) \/ ~success
              ELSE n = Len(contacted) /\ success
        /\ ReturnedLinks

\* C26 as first stated: a CAPTCHA or an interstitial on any engine has the
\* engine skipped.
C26_Original ==
    InEngines =>
        /\ InOrder
        /\ \A n \in DOMAIN contacted :
              IF Unusable_AnyEngine(n) THEN n < Len(contacted) \/ ~success
              ELSE n = Len(contacted) /\ success
        /\ ReturnedLinks

\* DuckDuckGo raised, Google showed a CAPTCHA, and Bing's sixteen business
\* links were returned as fifteen
C26_Witness ==
    /\ EnginesDone
    /\ Len(contacted) = 3
    /\ contacted[1].page.raises
    /\ contacted[2].page.captcha
    /\ Len(contacted[3].page.links) = ManyLinks
    /\ result.success
    /\ Len(result.search_results) = TopResults

VerifyDone == call = "find_and_verify_merchant" /\ pc = "done"
InVerify == call = "find_and_verify_merchant"

\* the search results whose own page was navigated to
SitesTried == {n \in DOMAIN visited : ~visited[n].contact}

\* at most max_websites search results are navigated to, a failed navigation
\* included
WithinMaxWebsites == InVerify => Cardinality(SitesTried) <= max_websites

\* no page navigated to is a social-media URL
NoSocialVisit == InVerify => \A n \in DOMAIN visited : ~visited[n].social

\* once a collected result has a confidence above 70, no page is navigated to
StopsWhenSure ==
    (/\ InVerify
     /\ \E k \in DOMAIN verification_list :
           verification_list[k].address_match_confidence > 70)
        => visited' = visited

\* C24: find_and_verify_merchant runs address matching on at most
\* max_websites non-social-media sites, sites whose navigation fails counting
\* against the budget; it never visits a social-media URL; and it visits no
\* further site after a site or its contact page yields a confidence above 70.
C24_SiteBudget == []WithinMaxWebsites /\ []NoSocialVisit /\ [][StopsWhenSure]_vars

\* every collected result is verified exactly when its confidence exceeds 50
VerifiedAbove50 ==
    InVerify =>
        \A k \in DOMAIN verification_list :
           verification_list[k].verified
              <=> verification_list[k].address_match_confidence > 50

\* the value returned: None when nothing was collected, else the earliest
\* collected result among those with the highest confidence
ReturnedBest ==
    VerifyDone =>
        IF verification_list = <<>> THEN result = NoDict
        ELSE \E n \in DOMAIN verification_list :
                /\ result = verification_list[n]
                /\ \A k \in DOMAIN verification_list :
                      /\ verification_list[k].address_match_confidence
                            <= verification_list[n].address_match_confidence
                      /\ k < n => verification_list[k].address_match_confidence
                                    < verification_list[n].address_match_confidence

\* C25: find_and_verify_merchant returns None exactly when no site produced
\* a verification result (an unexpected error included); otherwise it returns
\* the collected result with the highest address_match_confidence; and every
\* collected result, one overwritten by a better contact page included, has
\* verified true exactly when its address_match_confidence exceeds 50.
C25_BestResult == VerifiedAbove50 /\ ReturnedBest

\* two results of equal confidence were collected, the first overwritten by
\* its contact page, and the first was returned
C25_Witness ==
    /\ VerifyDone
    /\ Len(verification_list) = 2
    /\ verification_list[1].is_contact_page
    /\ verification_list[1].verified
    /\ ~verification_list[2].is_contact_page
    /\ verification_list[1].address_match_confidence
          = verification_list[2].address_match_confidence
    /\ result = verification_list[1]
====
